---- MODULE Spec2Model ----
(***************************************************************************)
(* The typemap engine of SWIG/Source/Swig/typemap.c: the scope stack of    *)
(* nested hash tables, the registrar (register, copy, clear), and the      *)
(* specificity-ordered search.                                             *)
(*                                                                         *)
(* A DOH Hash is a function whose DOMAIN is the set of keys present; a     *)
(* String is a TLA+ string, formatted and searched character by character; *)
(* a ParmList is a sequence of parameters, NULL being the empty sequence;  *)
(* a parameter is a record that has a "name" field only when the C         *)
(* parameter has a name.  A Hash pointer returned by a search is a         *)
(* reference [scope, path, key] into the store.                            *)
(***************************************************************************)
EXTENDS Integers, Sequences, FiniteSets, TLC

VARIABLES typemaps, tm_scope, last, nops

vars == <<typemaps, tm_scope, last, nops>>

MAX_SCOPE == 32

\* Bounds of the exploration: the depth of the scope stack and the number of
\* calls of a run that add to the store (new_scope, register, copy, clear).
MaxDepth == 1
MaxOps == 3

-----------------------------------------------------------------------------
(* DOH strings and hashes *)

StartsWith(s, p) == Len(s) >= Len(p) /\ SubSeq(s, 1, Len(p)) = p

\* The positions at or after i where pat occurs in s.
Occurs(s, pat, i) ==
  {j \in i .. Len(s) - Len(pat) + 1 : SubSeq(s, j, j + Len(pat) - 1) = pat}

\* Index of the first occurrence of pat in s at or after position i; 0 if none.
Find(s, pat, i) ==
  IF Occurs(s, pat, i) = {} THEN 0
  ELSE CHOOSE j \in Occurs(s, pat, i) : \A k \in Occurs(s, pat, i) : j <= k

Strstr(s, pat) == Find(s, pat, 1) # 0

EmptyHash == [k \in {} |-> k]

Has(h, k) == k \in DOMAIN h

Setattr(h, k, v) == [x \in (DOMAIN h) \cup {k} |-> IF x = k THEN v ELSE h[x]]

Delattr(h, k) == [x \in (DOMAIN h) \ {k} |-> h[x]]

\* Setattr with a ParmList value: a NULL object deletes the attribute.
SetattrList(h, k, l) == IF l = <<>> THEN Delattr(h, k) ELSE Setattr(h, k, l)

\* Getattr of a child hash; a missing child reads as an empty hash (Getattr on
\* a NULL object returns NULL).
Child(h, k) == IF Has(h, k) THEN h[k] ELSE EmptyHash

HasName(p) == "name" \in DOMAIN p

\* Len of a parameter list: the number of its parameters.
ParmListLen(parms) == Len(parms)

\* A parameter name as printf's %s prints it (NULL prints as nothing).
NameStr(p) == IF HasName(p) THEN p.name ELSE ""

\* (name) && Len(name)
NameGiven(p) == HasName(p) /\ Len(p.name) > 0

-----------------------------------------------------------------------------
(* The type utilities, on the type encoding of SWIG *)

NoType == ""

Typedefs == [Integer |-> "int"]

\* The text after the first element of t ("a(10).int" -> "int").
AfterFirst(t) == SubSeq(t, Find(t, ".", 1) + 1, Len(t))

FirstElem(t) == SubSeq(t, 1, Find(t, ".", 1))

HasElem(t) == Find(t, ".", 1) # 0

SwigType_isarray(t) == StartsWith(t, "a(")

SwigType_ispointer(t) == StartsWith(t, "p.")

RECURSIVE SwigType_strip_qualifiers(_)
SwigType_strip_qualifiers(t) ==
  IF ~HasElem(t) THEN t
  ELSE IF StartsWith(t, "q(") THEN SwigType_strip_qualifiers(AfterFirst(t))
  ELSE FirstElem(t) \o SwigType_strip_qualifiers(AfterFirst(t))

RECURSIVE SwigType_base(_)
SwigType_base(t) == IF HasElem(t) THEN SwigType_base(AfterFirst(t)) ELSE t

\* One level of typedef resolution on the base type; NoType when none applies.
SwigType_typedef_resolve(t) ==
  LET b == SwigType_base(t) IN
  IF b \in DOMAIN Typedefs
  THEN SubSeq(t, 1, Len(t) - Len(b)) \o Typedefs[b]
  ELSE NoType

RECURSIVE ResolveAll(_)
ResolveAll(t) ==
  LET r == SwigType_typedef_resolve(t) IN IF r = NoType THEN t ELSE ResolveAll(r)

\* The generic default of a type.
SwigType_default(t) ==
  LET r == SwigType_strip_qualifiers(ResolveAll(t)) IN
  IF SwigType_ispointer(r) THEN "p.void"
  ELSE IF SwigType_isarray(r) THEN "a(ANY).SWIGTYPE"
  ELSE "SWIGTYPE"

SwigType_str(t, p) == IF HasName(p) THEN t \o " " \o p.name ELSE t

\* strip_arrays that leaves the dimensions in place.
strip_arrays_none(t) == t

RECURSIVE strip_arrays(_)
\* Every leading array dimension replaced by ANY.
strip_arrays(t) ==
  IF SwigType_isarray(t) THEN "a(ANY)." \o strip_arrays(AfterFirst(t)) ELSE t

-----------------------------------------------------------------------------
(* Inputs *)

Ops == {"in"}

PIntX == [type |-> "int", name |-> "x"]
PInt == [type |-> "int"]
PArr == [type |-> "a(ANY).int"]
PDef == [type |-> "SWIGTYPE"]

\* The lists the registrar is run on.  A registered parameter has an identifier
\* for a name or no name; the queries below also carry the empty name.
ParmLists ==
  { <<PIntX>>, <<PInt>>, <<PArr>>, <<PDef>>,
    <<PIntX, PInt>>, <<PIntX, PInt, PIntX>>, <<PDef, PInt>> }

Local1 == [type |-> "$1_ltype", name |-> "temp"]
Kwarg1 == [name |-> "numinputs", value |-> "0"]

Rules ==
  { [code |-> "c1", locals |-> <<>>, kwargs |-> <<>>],
    [code |-> "c2", locals |-> <<Local1>>, kwargs |-> <<Kwarg1>>] }

QueryTypes == {"int", "q(const).Integer", "a(10).int", "SWIGTYPE"}

QueryParms ==
  [type : QueryTypes] \cup [type : QueryTypes, name : {"x", ""}]

\* Queries on arrays of one dimension of a given size.
ArrayQueries ==
  [type : {"a(10).int", "a(3).int"}]
    \cup [type : {"a(10).int", "a(3).int"}, name : {"x", ""}]

\* Queries on an array whose element type is a typedef name.
TypedefArrayQueries ==
  [type : {"a(10).Integer"}] \cup [type : {"a(10).Integer"}, name : {"x"}]

\* The queries the Search action runs.
SearchParms ==
  { [type |-> "int", name |-> "x"], [type |-> "int"],
    [type |-> "q(const).Integer", name |-> "x"],
    [type |-> "a(10).int", name |-> "x"], [type |-> "a(10).int"] }

\* The lists the SearchMulti action runs.
MultiLists == { <<PIntX>>, <<PIntX, PInt>>, <<PIntX, PInt, PIntX>> }

\* The (source, destination) pairs the Copy action runs.
CopyPairs ==
  { << <<PIntX>>, <<PInt>> >>, << <<PInt>>, <<PIntX>> >>, << <<PDef>>, <<PInt>> >>,
    << <<PArr>>, <<PDef>> >>, << <<PIntX, PInt>>, <<PIntX, PInt>> >>,
    << <<PIntX, PInt>>, <<PDef, PInt>> >>, << <<PIntX>>, <<PIntX, PInt>> >>,
    << <<PIntX, PInt>>, <<PInt>> >> }

-----------------------------------------------------------------------------
(* The store *)

RECURSIVE CountFrom(_, _)
CountFrom(s, i) ==
  IF i > Len(s) THEN 0
  ELSE (IF SubSeq(s, i, i) = "+" THEN 1 ELSE 0) + CountFrom(s, i + 1)

\* The number of '+' characters of a key.
count_args(s) == CountFrom(s, 1)

tmop_name(op) == "tmap:" \o op

\* "%s-%s+%s:"
NewOp(op, p) == op \o "-" \o p.type \o "+" \o NameStr(p) \o ":"

\* The [type] node of scope hash S, or the [name] node below it when the
\* path has a name.
NodeAt(S, path) ==
  IF Len(path) = 1 THEN Child(S, path[1]) ELSE Child(Child(S, path[1]), path[2])

HasNode(S, path) ==
  /\ Has(S, path[1])
  /\ Len(path) = 2 => Has(S[path[1]], path[2])

\* S with the node at path replaced by n (the [type] node is created if needed).
PutNode(S, path, n) ==
  IF Len(path) = 1 THEN Setattr(S, path[1], n)
  ELSE Setattr(S, path[1], Setattr(Child(S, path[1]), path[2], n))

\* The node a registration of p descends to: register tests only (pname).
RegPath(p) == IF HasName(p) THEN <<p.type, p.name>> ELSE <<p.type>>

\* The node Swig_typemap_get selects: (name) && Len(name).
GetPath(p) == IF NameGiven(p) THEN <<p.type, p.name>> ELSE <<p.type>>

\* WriteEntry that leaves an entry alone once it has code.
WriteEntry_KeepCode(tm2, op, p, rule) ==
  LET e1 == IF Has(tm2, "code") THEN tm2 ELSE Setattr(tm2, "code", rule.code)
      e2 == Setattr(e1, "type", p.type)
      e3 == Setattr(e2, "typemap",
                    "typemap(" \o op \o ") " \o SwigType_str(p.type, p))
      e4 == IF HasName(p) THEN Setattr(e3, "pname", p.name) ELSE e3
      e5 == SetattrList(e4, "locals", rule.locals)
  IN SetattrList(e5, "kwargs", rule.kwargs)

\* WriteEntry that sets locals and kwargs only when it is given some.
WriteEntry_KeepLocals(tm2, op, p, rule) ==
  LET e1 == Setattr(tm2, "code", rule.code)
      e2 == Setattr(e1, "type", p.type)
      e3 == Setattr(e2, "typemap",
                    "typemap(" \o op \o ") " \o SwigType_str(p.type, p))
      e4 == IF HasName(p) THEN Setattr(e3, "pname", p.name) ELSE e3
      e5 == IF rule.locals = <<>> THEN e4 ELSE Setattr(e4, "locals", rule.locals)
  IN IF rule.kwargs = <<>> THEN e5 ELSE Setattr(e5, "kwargs", rule.kwargs)

\* WriteEntry that does not set the type of the entry.
WriteEntry_NoType(tm2, op, p, rule) ==
  LET e1 == Setattr(tm2, "code", rule.code)
      e3 == Setattr(e1, "typemap",
                    "typemap(" \o op \o ") " \o SwigType_str(p.type, p))
      e4 == IF HasName(p) THEN Setattr(e3, "pname", p.name) ELSE e3
      e5 == SetattrList(e4, "locals", rule.locals)
  IN SetattrList(e5, "kwargs", rule.kwargs)

\* The last parameter of a registration: every field of the entry tm2 is set.
WriteEntry(tm2, op, p, rule) ==
  LET e1 == Setattr(tm2, "code", rule.code)
      e2 == Setattr(e1, "type", p.type)
      e3 == Setattr(e2, "typemap",
                    "typemap(" \o op \o ") " \o SwigType_str(p.type, p))
      e4 == IF HasName(p) THEN Setattr(e3, "pname", p.name) ELSE e3
      e5 == SetattrList(e4, "locals", rule.locals)
  IN SetattrList(e5, "kwargs", rule.kwargs)

RECURSIVE RegisterScope(_, _, _, _)
\* Swig_typemap_register_multi on the scope hash S = typemaps[tm_scope].
RegisterScope(S, op, parms, rule) ==
  IF parms = <<>> THEN S
  ELSE
    LET p == Head(parms)
        tmop == tmop_name(op)
        \* type node and name node are created when missing
        S1 == IF Has(S, p.type) THEN S ELSE Setattr(S, p.type, EmptyHash)
        S2 == IF HasNode(S1, RegPath(p)) THEN S1 ELSE PutNode(S1, RegPath(p), EmptyHash)
        tm == NodeAt(S2, RegPath(p))
        tm2 == Child(tm, tmop)
    IN
    IF Tail(parms) # <<>>
    THEN RegisterScope(PutNode(S2, RegPath(p), Setattr(tm, tmop, tm2)),
                       NewOp(op, p), Tail(parms), rule)
    ELSE PutNode(S2, RegPath(p), Setattr(tm, tmop, WriteEntry(tm2, op, p, rule)))

\* Swig_typemap_get: the node of (type, name) in a scope, as a path, or <<>>.
Swig_typemap_get(tms, top, p, scope) ==
  IF scope < 0 \/ scope > top THEN <<>>
  ELSE IF ~Has(tms[scope], p.type) THEN <<>>
  ELSE IF NameGiven(p)
       THEN IF Has(tms[scope][p.type], p.name) THEN <<p.type, p.name>> ELSE <<>>
       ELSE <<p.type>>

-----------------------------------------------------------------------------
(* Swig_typemap_search *)

NoRef == <<>>

Ref(ts, path, key) == [scope |-> ts, path |-> path, key |-> key]

\* The entry a reference points to.
Deref(tms, r) == NodeAt(tms[r.scope], r.path)[r.key]

HasCode(tms, r) == r # NoRef /\ Has(Deref(tms, r), "code")

RECURSIVE TypeChain(_, _)
\* The types the inner loop visits: ctype, then its qualifier-stripped form when
\* that differs (unstripped set), then one typedef level down, and so on.
TypeChain(ctype, unstripped) ==
  <<ctype>> \o
    (IF ~unstripped /\ SwigType_strip_qualifiers(ctype) # ctype
     THEN TypeChain(SwigType_strip_qualifiers(ctype), TRUE)
     ELSE LET r == SwigType_typedef_resolve(ctype) IN
          IF r = NoType THEN <<>> ELSE TypeChain(r, FALSE))

\* The two matches of one type key taken in the other order.
NodePaths_TypeFirst(t, q) ==
  IF NameGiven(q) THEN << <<t>>, <<t, q.name>> >> ELSE << <<t>> >>

\* type-name match, then type match, on one type key.
NodePaths(t, q) == IF NameGiven(q) THEN << <<t, q.name>>, <<t>> >> ELSE << <<t>> >>

RECURSIVE ChainPaths(_, _, _)
\* The candidate nodes of the inner loop, in order.  isarray and noarrays are
\* computed once, from the query type.
ChainPaths(chain, q, noarrays) ==
  IF chain = <<>> THEN <<>>
  ELSE NodePaths(Head(chain), q)
       \o (IF SwigType_isarray(q.type) THEN NodePaths(noarrays, q) ELSE <<>>)
       \o ChainPaths(Tail(chain), q, noarrays)

Candidates(q) == ChainPaths(TypeChain(q.type, FALSE), q, strip_arrays(q.type))

DefaultPaths(q) == NodePaths(SwigType_default(q.type), q)

\* Every parameter a search is run on: the queries and the elements of the lists.
AllParms ==
  QueryParms \cup ArrayQueries \cup TypedefArrayQueries
    \cup UNION {{l[i] : i \in 1 .. Len(l)} : l \in ParmLists}

\* Candidates and DefaultPaths depend on the query alone: tabulated once.
CandidateTable == [q \in AllParms |-> Candidates(q)]

DefaultTable == [q \in AllParms |-> DefaultPaths(q)]

\* Whether the scope hash S holds an entry for tmop at the node of path.
EntryAt(S, path, tmop) == HasNode(S, path) /\ Has(NodeAt(S, path), tmop)

RECURSIVE ScanCode(_, _, _, _, _)
\* Candidates of one scope: st = [hit, backup]; an entry with code is a hit,
\* an entry without code becomes the backup.
ScanCode(tms, ts, paths, tmop, backup) ==
  IF paths = <<>> THEN [hit |-> NoRef, backup |-> backup]
  ELSE IF EntryAt(tms[ts], Head(paths), tmop)
       THEN IF Has(NodeAt(tms[ts], Head(paths))[tmop], "code")
            THEN [hit |-> Ref(ts, Head(paths), tmop), backup |-> backup]
            ELSE ScanCode(tms, ts, Tail(paths), tmop, Ref(ts, Head(paths), tmop))
       ELSE ScanCode(tms, ts, Tail(paths), tmop, backup)

RECURSIVE ScanDefault(_, _, _, _)
\* The default mapping of one scope: any entry is a hit.
ScanDefault(tms, ts, paths, tmop) ==
  IF paths = <<>> THEN NoRef
  ELSE IF EntryAt(tms[ts], Head(paths), tmop)
       THEN Ref(ts, Head(paths), tmop)
       ELSE ScanDefault(tms, ts, Tail(paths), tmop)

RECURSIVE SearchFrom(_, _, _, _, _)
\* The scope loop of Swig_typemap_search from scope ts down to 0.
SearchFrom(tms, ts, op, q, backup) ==
  IF ts < 0 THEN backup
  ELSE
    LET c == ScanCode(tms, ts, CandidateTable[q], tmop_name(op), backup)
        d == ScanDefault(tms, ts, DefaultTable[q], tmop_name(op))
    IN IF c.hit # NoRef THEN c.hit
       ELSE IF d # NoRef THEN d
       ELSE SearchFrom(tms, ts - 1, op, q, c.backup)

Swig_typemap_search(tms, top, op, q) == SearchFrom(tms, top, op, q, NoRef)

-----------------------------------------------------------------------------
(* Swig_typemap_search_multi *)

\* MultiResult that keeps the match of the first parameter.
MultiResult_FirstOnly(tms, tm, r) ==
  IF HasCode(tms, tm)
  THEN [tm |-> tm, nmatch |-> r.nmatch + 1]
  ELSE [tm |-> NoRef, nmatch |-> r.nmatch]

\* MultiResult without the test of the code of the entry.
MultiResult_NoCodeTest(tms, tm, r) ==
  [tm |-> IF r.tm # NoRef THEN r.tm ELSE tm, nmatch |-> r.nmatch + 1]

\* What search_multi returns once the first parameter matched tm and the
\* recursion on the remaining ones returned r.
MultiResult(tms, tm, r) ==
  LET tm1 == IF r.tm # NoRef THEN r.tm ELSE tm IN
  IF HasCode(tms, tm1)
  THEN [tm |-> tm1, nmatch |-> r.nmatch + 1]
  ELSE [tm |-> NoRef, nmatch |-> r.nmatch]

RECURSIVE Swig_typemap_search_multi(_, _, _, _, _)
\* Returns the entry and the value left in *nmatch, which the caller passed in
\* holding nmatch.
Swig_typemap_search_multi(tms, top, op, parms, nmatch) ==
  IF parms = <<>> THEN [tm |-> NoRef, nmatch |-> 0]
  ELSE
    LET tm == Swig_typemap_search(tms, top, op, Head(parms)) IN
    IF tm = NoRef THEN [tm |-> NoRef, nmatch |-> nmatch]
    ELSE
      MultiResult(tms, tm,
                  Swig_typemap_search_multi(tms, top, NewOp(op, Head(parms)),
                                            Tail(parms), nmatch))

-----------------------------------------------------------------------------
(* Swig_typemap_copy_multi and Swig_typemap_clear_multi *)

RECURSIVE CopyWalk(_, _, _, _, _)
\* The inner loop of copy in scope ts: the terminal entry of srcparms, walked
\* with the accumulated key tmops, or NoRef when a step breaks.
CopyWalk(tms, top, ts, p, tmops) ==
  LET path == Swig_typemap_get(tms, top, Head(p), ts) IN
  IF path = <<>> THEN NoRef
  ELSE IF ~Has(NodeAt(tms[ts], path), tmops) THEN NoRef
  ELSE IF Tail(p) = <<>> THEN Ref(ts, path, tmops)
  ELSE CopyWalk(tms, top, ts, Tail(p), NewOp(tmops, Head(p)))

RECURSIVE CopyFind(_, _, _, _, _)
\* The scope loop of copy: the first scope, from ts down, with a terminal entry.
CopyFind(tms, top, ts, op, srcparms) ==
  IF ts < 0 \/ srcparms = <<>> THEN NoRef
  ELSE LET tm == CopyWalk(tms, top, ts, srcparms, tmop_name(op)) IN
       IF tm # NoRef THEN tm ELSE CopyFind(tms, top, ts - 1, op, srcparms)

\* The arguments copy hands to register: NewString(NULL) is the empty string,
\* a missing ParmList is NULL.
RuleOf(e) ==
  [code |-> IF Has(e, "code") THEN e["code"] ELSE "",
   locals |-> IF Has(e, "locals") THEN e["locals"] ELSE <<>>,
   kwargs |-> IF Has(e, "kwargs") THEN e["kwargs"] ELSE <<>>]

\* copy that looks for the source in the top scope alone.
Swig_typemap_copy_multi_TopOnly(tms, top, op, srcparms, parms) ==
  IF ParmListLen(parms) # ParmListLen(srcparms) \/ srcparms = <<>>
  THEN [ret |-> -1, tms |-> tms]
  ELSE
    LET tm == CopyWalk(tms, top, top, srcparms, tmop_name(op)) IN
    IF tm = NoRef THEN [ret |-> -1, tms |-> tms]
    ELSE [ret |-> 0,
          tms |-> [tms EXCEPT ![top] =
                     RegisterScope(tms[top], op, parms, RuleOf(Deref(tms, tm)))]]

\* copy without the comparison of the two lengths.
Swig_typemap_copy_multi_NoArity(tms, top, op, srcparms, parms) ==
  LET tm == CopyFind(tms, top, top, op, srcparms) IN
  IF tm = NoRef THEN [ret |-> -1, tms |-> tms]
  ELSE [ret |-> 0,
        tms |-> [tms EXCEPT ![top] =
                   RegisterScope(tms[top], op, parms, RuleOf(Deref(tms, tm)))]]

\* [ret, tms]: the return value and the store after the call.
Swig_typemap_copy_multi(tms, top, op, srcparms, parms) ==
  IF ParmListLen(parms) # ParmListLen(srcparms) THEN [ret |-> -1, tms |-> tms]
  ELSE
    LET tm == CopyFind(tms, top, top, op, srcparms) IN
    IF tm = NoRef THEN [ret |-> -1, tms |-> tms]
    ELSE [ret |-> 0,
          tms |-> [tms EXCEPT ![top] =
                     RegisterScope(tms[top], op, parms, RuleOf(Deref(tms, tm)))]]

RECURSIVE ClearWalk(_, _, _, _)
\* The loop of clear: [tm, newop], tm the node of the last parameter, or <<>>
\* when some parameter has no node in the top scope.
ClearWalk(tms, top, p, newop) ==
  LET path == Swig_typemap_get(tms, top, Head(p), top) IN
  IF path = <<>> THEN [tm |-> <<>>, newop |-> newop]
  ELSE IF Tail(p) = <<>> THEN [tm |-> path, newop |-> newop]
  ELSE ClearWalk(tms, top, Tail(p), newop \o "-" \o Head(p).type \o "+"
                                          \o NameStr(Head(p)) \o ":")

\* ClearEntry that leaves the code in place.
ClearEntry_KeepCode(e) == Delattr(Delattr(e, "locals"), "kwargs")

ClearEntry(e) == Delattr(Delattr(Delattr(e, "code"), "locals"), "kwargs")

\* clear that works on the scope below the top one when there is one.
Swig_typemap_clear_multi_Below(tms, top, op, parms) ==
  IF parms = <<>> THEN tms
  ELSE
    LET b == IF top > 0 THEN top - 1 ELSE top
        w == ClearWalk(tms, b, parms, op)
        key == tmop_name(w.newop)
    IN
    IF w.tm = <<>> THEN tms
    ELSE IF ~Has(NodeAt(tms[b], w.tm), key) THEN tms
    ELSE [tms EXCEPT ![b] =
            PutNode(tms[b], w.tm,
                    Setattr(NodeAt(tms[b], w.tm), key,
                            ClearEntry(NodeAt(tms[b], w.tm)[key])))]

Swig_typemap_clear_multi(tms, top, op, parms) ==
  IF parms = <<>> THEN tms
  ELSE
    LET w == ClearWalk(tms, top, parms, op)
        key == tmop_name(w.newop)
    IN
    IF w.tm = <<>> THEN tms
    ELSE IF ~Has(NodeAt(tms[top], w.tm), key) THEN tms
    ELSE [tms EXCEPT ![top] =
            PutNode(tms[top], w.tm,
                    Setattr(NodeAt(tms[top], w.tm), key,
                            ClearEntry(NodeAt(tms[top], w.tm)[key])))]

-----------------------------------------------------------------------------
(* Operations *)

\* Swig_typemap_register_multi on the store.
Swig_typemap_register_multi(tms, top, op, parms, rule) ==
  [tms EXCEPT ![top] = RegisterScope(tms[top], op, parms, rule)]

\* new_scope without the NewHash: the slot keeps what a popped scope left.
Swig_typemap_new_scope_Stale(tms, top) == [tms |-> tms, top |-> top + 1]

\* Swig_typemap_new_scope: [tms, top] after the call.
Swig_typemap_new_scope(tms, top) ==
  [tms |-> [tms EXCEPT ![top + 1] = EmptyHash], top |-> top + 1]

\* pop_scope that returns the top scope without leaving it.
Swig_typemap_pop_scope_Stay(tms, top) ==
  [tms |-> tms, top |-> top, ret |-> top > 0, scope |-> IF top > 0 THEN top ELSE -1]

\* pop_scope without the test of tm_scope > 0.
Swig_typemap_pop_scope_Unchecked(tms, top) ==
  [tms |-> tms, top |-> top - 1, ret |-> TRUE, scope |-> top]

\* Swig_typemap_pop_scope: the popped hash stays in its slot.  ret tells a
\* hash from NULL, scope is the slot of the hash returned (-1 for NULL).
Swig_typemap_pop_scope(tms, top) ==
  IF top > 0 THEN [tms |-> tms, top |-> top - 1, ret |-> TRUE, scope |-> top]
  ELSE [tms |-> tms, top |-> top, ret |-> FALSE, scope |-> -1]

-----------------------------------------------------------------------------
(* %except *)

\* Swig_except_register: the string is stored in the top scope.
Swig_except_register(tms, top, code) ==
  [tms EXCEPT ![top] = Setattr(tms[top], "*except*", code)]

\* Swig_except_clear
Swig_except_clear(tms, top) == [tms EXCEPT ![top] = Delattr(tms[top], "*except*")]

RECURSIVE ExceptFrom(_, _, _)
\* The loop of Swig_except_lookup at scope ts: every turn reads typemaps[tm_scope].
ExceptFrom(tms, top, ts) ==
  IF ts < 0 THEN [found |-> FALSE]
  ELSE IF Has(tms[top], "*except*") THEN [found |-> TRUE, s |-> tms[top]["*except*"]]
  ELSE ExceptFrom(tms, top, ts - 1)

\* Swig_except_lookup: [found, s], found telling a string from NULL.
Swig_except_lookup(tms, top) == ExceptFrom(tms, top, top)

-----------------------------------------------------------------------------
(* %apply *)

\* The lists the actions on %apply rules are run on.
ApplyOps == {"in", "out"}

ApplyLists == { <<PInt>>, <<PIntX>>, <<PArr>>, <<PIntX, PInt>>, <<PDef, PInt>> }

\* The (source, destination) pairs the Apply action runs.
ApplyPairs ==
  { << <<PInt>>, <<PIntX>> >>, << <<PInt>>, <<PArr>> >>, << <<PIntX>>, <<PInt>> >>,
    << <<PIntX, PInt>>, <<PDef, PInt>> >>, << <<PDef, PInt>>, <<PIntX, PInt>> >> }

\* What the build can make of Setattr(hash, Copy(0), tm); Delete(tm): the run
\* stops there, or it goes on with tm a hash that is in no scope.
Outcomes == {"stop", "detached"}

RECURSIVE ReplaceAll(_, _, _)
\* Replace(s, pat, rep, DOH_REPLACE_ANY); an empty pat replaces nothing.
ReplaceAll(s, pat, rep) ==
  IF pat = "" THEN s
  ELSE LET i == Find(s, pat, 1) IN
       IF i = 0 THEN s
       ELSE SubSeq(s, 1, i - 1) \o rep
              \o ReplaceAll(SubSeq(s, i + Len(pat), Len(s)), pat, rep)

RECURSIVE Signature(_)
\* The signature of a list: "-type+name:" of every parameter that has a next.
Signature(parms) ==
  IF Len(parms) <= 1 THEN ""
  ELSE "-" \o Head(parms).type \o "+" \o NameStr(Head(parms)) \o ":"
         \o Signature(Tail(parms))

\* The node tm of the last destination parameter: [tms, path, stopped].  The
\* path is <<>> for a hash that is in no scope.
ApplyTarget(tms, top, lastdp, outcome) ==
  IF ~Has(tms[top], lastdp.type)
  THEN [tms |-> tms, path |-> <<>>, stopped |-> outcome = "stop"]
  ELSE IF ~HasName(lastdp)
       THEN [tms |-> tms, path |-> <<lastdp.type>>, stopped |-> FALSE]
       ELSE [tms |-> IF HasNode(tms[top], RegPath(lastdp)) THEN tms
                     ELSE [tms EXCEPT ![top] =
                             PutNode(tms[top], RegPath(lastdp), EmptyHash)],
             path |-> RegPath(lastdp), stopped |-> FALSE]

\* Whether the key nkey is in the destination node tm.
InTarget(tms, top, tmpath, nkey) ==
  tmpath # <<>> /\ Has(NodeAt(tms[top], tmpath), nkey)

\* ApplyKey that registers over a key the destination node has.
ApplyKey_Overwrite(tms, top, tmpath, sm1, key, ssig, dsig, narg, dest) ==
  IF ~(count_args(key) = narg /\ Strstr(key, ssig)) THEN tms
  ELSE LET nkey == ReplaceAll(key, ssig, dsig) IN
       IF ~Has(sm1, "code") THEN tms
       ELSE Swig_typemap_register_multi(
              tms, top, ReplaceAll(ReplaceAll(nkey, dsig, ""), "tmap:", ""),
              dest, RuleOf(sm1))

\* The body of the loop over the keys of a source node: sm1 is the entry
\* under key.
ApplyKey(tms, top, tmpath, sm1, key, ssig, dsig, narg, dest) ==
  IF ~(count_args(key) = narg /\ Strstr(key, ssig)) THEN tms
  ELSE LET nkey == ReplaceAll(key, ssig, dsig) IN
       IF InTarget(tms, top, tmpath, nkey) \/ ~Has(sm1, "code") THEN tms
       ELSE Swig_typemap_register_multi(
              tms, top, ReplaceAll(ReplaceAll(nkey, dsig, ""), "tmap:", ""),
              dest, RuleOf(sm1))

RECURSIVE ApplyKeys(_, _, _, _, _, _, _, _, _, _)
\* The loop over the keys of the source node sm of scope ts.
ApplyKeys(tms, top, tmpath, ts, smpath, keys, ssig, dsig, narg, dest) ==
  IF keys = {} THEN tms
  ELSE LET key == CHOOSE k \in keys : TRUE IN
       ApplyKeys(ApplyKey(tms, top, tmpath, NodeAt(tms[ts], smpath)[key],
                          key, ssig, dsig, narg, dest),
                 top, tmpath, ts, smpath, keys \ {key}, ssig, dsig, narg, dest)

RECURSIVE ApplyScopes(_, _, _, _, _, _, _, _, _)
\* The loop over the scopes, from ts down to 0.
ApplyScopes(tms, top, tmpath, ts, lastp, ssig, dsig, narg, dest) ==
  IF ts < 0 THEN tms
  ELSE LET smpath == Swig_typemap_get(tms, top, lastp, ts)
           t1 == IF smpath = <<>> THEN tms
                 ELSE ApplyKeys(tms, top, tmpath, ts, smpath,
                                DOMAIN NodeAt(tms[ts], smpath),
                                ssig, dsig, narg, dest)
       IN ApplyScopes(t1, top, tmpath, ts - 1, lastp, ssig, dsig, narg, dest)

\* Swig_typemap_apply_multi: [tms, stopped].
Swig_typemap_apply_multi(tms, top, src, dest, outcome) ==
  LET tgt == ApplyTarget(tms, top, dest[Len(dest)], outcome) IN
  IF tgt.stopped THEN [tms |-> tms, stopped |-> TRUE]
  ELSE [tms |-> ApplyScopes(tgt.tms, top, tgt.path, top, src[Len(src)],
                            Signature(src), Signature(dest), Len(src) - 1, dest),
        stopped |-> FALSE]

\* ClearMatches without the test of the number of arguments.
ClearMatches_AnyCount(key, narg, tsig) ==
  StartsWith(key, "tmap:") /\ Strstr(key, tsig)

\* The test clear_apply makes of a key of the node.
ClearMatches(key, narg, tsig) ==
  StartsWith(key, "tmap:") /\ count_args(key) = narg /\ Strstr(key, tsig)

\* Swig_typemap_clear_apply_multi: every attribute of a matching entry is
\* deleted, the entry stays under its key.
Swig_typemap_clear_apply_multi(tms, top, parms) ==
  LET lastp == parms[Len(parms)]
      path == RegPath(lastp)
      tm == NodeAt(tms[top], path)
  IN IF ~HasNode(tms[top], path) THEN tms
     ELSE [tms EXCEPT ![top] =
             PutNode(tms[top], path,
                     [k \in DOMAIN tm |->
                        IF ClearMatches(k, Len(parms) - 1, Signature(parms))
                        THEN EmptyHash ELSE tm[k]])]

-----------------------------------------------------------------------------
(* The type utilities of the variable substitution *)

\* SwigType_str(t, 0): the C text of a type.
SwigType_str_noname(t) ==
  LET F[u \in {SubSeq(t, i, Len(t)) : i \in 1 .. Len(t) + 1}] ==
        IF StartsWith(u, "p.") THEN F[AfterFirst(u)] \o " *"
        ELSE IF StartsWith(u, "a(")
             THEN F[AfterFirst(u)] \o " [" \o SubSeq(u, 3, Find(u, ")", 1) - 1) \o "]"
        ELSE IF StartsWith(u, "q(")
             THEN SubSeq(u, 3, Find(u, ")", 1) - 1) \o " " \o F[AfterFirst(u)]
        ELSE u
  IN F[t]

\* SwigType_ltype: the type of a local that holds a value of type t, without
\* qualifiers and with a leading array made a pointer.
SwigType_ltype(t) ==
  LET u == SwigType_strip_qualifiers(t) IN
  IF SwigType_isarray(u) THEN "p." \o AfterFirst(u) ELSE u

\* SwigType_manglestr: "_p_Foo" for "p.Foo".
SwigType_manglestr(t) ==
  "_" \o ReplaceAll(ReplaceAll(ReplaceAll(t, ".", "_"), "(", "_"), ")", "_")

SwigType_add_pointer(t) == "p." \o t

SwigType_del_pointer(t) == IF SwigType_ispointer(t) THEN AfterFirst(t) ELSE t

RECURSIVE SwigType_array_ndim(_)
SwigType_array_ndim(t) ==
  IF SwigType_isarray(t) THEN 1 + SwigType_array_ndim(AfterFirst(t)) ELSE 0

RECURSIVE SwigType_array_getdim(_, _)
SwigType_array_getdim(t, i) ==
  IF i = 0 THEN SubSeq(t, 3, Find(t, ")", 1) - 1)
  ELSE SwigType_array_getdim(AfterFirst(t), i - 1)

RECURSIVE IntStr(_)
\* printf's %d of a number that is not negative.
IntStr(n) ==
  IF n < 10 THEN SubSeq("0123456789", n + 1, n + 1)
  ELSE IntStr(n \div 10) \o SubSeq("0123456789", (n % 10) + 1, (n % 10) + 1)

IsIdChar(c) ==
  Find("abcdefghijklmnopqrstuvwxyzABCDEFGHIJKLMNOPQRSTUVWXYZ0123456789_", c, 1) # 0

RECURSIVE ReplaceIdFrom(_, _, _, _)
\* Replace(s, pat, rep, DOH_REPLACE_ID) from position i on: an occurrence is
\* replaced when no identifier character is next to it.
ReplaceIdFrom(s, pat, rep, i) ==
  LET j == Find(s, pat, i) IN
  IF pat = "" \/ j = 0 THEN s
  ELSE IF \/ (j > 1 /\ IsIdChar(SubSeq(s, j - 1, j - 1)))
          \/ (j + Len(pat) <= Len(s) /\ IsIdChar(SubSeq(s, j + Len(pat), j + Len(pat))))
       THEN ReplaceIdFrom(s, pat, rep, j + 1)
       ELSE ReplaceIdFrom(SubSeq(s, 1, j - 1) \o rep \o SubSeq(s, j + Len(pat), Len(s)),
                          pat, rep, j + Len(rep))

-----------------------------------------------------------------------------
(* typemap_replace_vars *)

\* A string that may be NULL.
Null == [found |-> FALSE]

Str(s) == [found |-> TRUE, s |-> s]

\* replace_local_types
replace_local_types(locals, name, rep) ==
  [k \in 1 .. Len(locals) |->
     [locals[k] EXCEPT !.type = ReplaceAll(locals[k].type, name, rep)]]

\* "$<index>_<suffix>", with the prefix * or & of the pointer forms.
Var(prefix, index, suffix) == "$" \o prefix \o IntStr(index) \o "_" \o suffix

\* The calls of Replace in their order, as steps: a step replaces var by rep in
\* the code; a step of kind "both" also replaces it by t in the types of the
\* locals (replace_local_types), a step of kind "descriptor" hands t to
\* SwigType_remember when Replace has replaced something.
InCode(var, rep) == [kind |-> "code", var |-> var, rep |-> rep, t |-> ""]

InBoth(var, rep, lrep) == [kind |-> "both", var |-> var, rep |-> rep, t |-> lrep]

InDescriptor(var, rep, t) == [kind |-> "descriptor", var |-> var, rep |-> rep, t |-> t]

\* The steps made under if (index == 1).
Bare(index, steps) == IF index = 1 THEN steps ELSE <<>>

RECURSIVE DimSteps(_, _, _)
\* The loop over the dimensions of an array type, from dimension i on.
DimSteps(type, index, i) ==
  IF i >= SwigType_array_ndim(type) THEN <<>>
  ELSE LET dim == SwigType_array_getdim(type, i) IN
       Bare(index, <<InBoth("$dim" \o IntStr(i), dim, dim)>>)
         \o <<InBoth(Var("", index, "dim" \o IntStr(i)), dim, dim)>>
         \o DimSteps(type, index, i + 1)

\* $parmname and $n_name
NameSteps(pname, index) ==
  Bare(index, <<InCode("$parmname", pname)>>) \o <<InCode(Var("", index, "name"), pname)>>

\* The type variable of a kind ("type" or "ltype") in one of the three forms:
\* t is the type the form stands for.
TypeSteps(prefix, kind, t, index) ==
  LET u == IF kind = "ltype" THEN SwigType_ltype(t) ELSE t
      ts == SwigType_str_noname(u)
  IN Bare(index, <<InBoth("$" \o prefix \o kind, ts, u)>>)
       \o <<InBoth(Var(prefix, index, kind), ts, u)>>

\* $mangle and $descriptor in one of the three forms.
MangleSteps(prefix, t, index) ==
  LET mangle == SwigType_manglestr(t)
      descriptor == "SWIGTYPE" \o mangle
  IN Bare(index, <<InCode("$" \o prefix \o "mangle", mangle)>>)
       \o <<InCode(Var(prefix, index, "mangle"), mangle)>>
       \o Bare(index, <<InDescriptor("$" \o prefix \o "descriptor", descriptor, t)>>)
       \o <<InDescriptor(Var(prefix, index, "descriptor"), descriptor, t)>>

\* One pointer level removed (for a pointer) or added.
PointerSteps(prefix, t, index) ==
  TypeSteps(prefix, "type", t, index) \o TypeSteps(prefix, "ltype", t, index)
    \o MangleSteps(prefix, t, index)

\* $basetype and $basemangle
BaseSteps(type, index) ==
  LET base_type == SwigType_base(type)
      base_mangle == SwigType_manglestr(base_type)
  IN Bare(index, <<InBoth("$basetype", base_type, base_type)>>)
       \o <<InBoth(Var("", index, "basetype"), base_type, base_type)>>
       \o Bare(index, <<InCode("$basemangle", base_mangle)>>)
       \o <<InCode(Var("", index, "basemangle"), base_mangle)>>

\* The blocks of typemap_replace_vars: a block with words is entered when the
\* code holds one of them (strstr), a block without words always.
Blocks(type, pname, lname, index) ==
  << [words |-> {},
      steps |-> (IF SwigType_isarray(type) THEN DimSteps(type, index, 0) ELSE <<>>)
                  \o NameSteps(pname, index)],
     [words |-> {"type"}, steps |-> TypeSteps("", "type", type, index)],
     [words |-> {"ltype"}, steps |-> TypeSteps("", "ltype", type, index)],
     [words |-> {"mangle", "descriptor"}, steps |-> MangleSteps("", type, index)],
     [words |-> {},
      steps |-> (IF SwigType_ispointer(type)
                 THEN PointerSteps("*", SwigType_del_pointer(type), index) ELSE <<>>)
                  \o PointerSteps("&", SwigType_add_pointer(type), index)
                  \o BaseSteps(type, index)
                  \o <<InCode("$" \o IntStr(index), lname)>>] >>

\* Remember that calls SwigType_remember whatever Replace returned.
Remember_Always(log, replaced, t) == Append(log, t)

\* if (Replace(...)) SwigType_remember(t)
Remember(log, replaced, t) == IF replaced THEN Append(log, t) ELSE log

\* One step on the state [s, locals, log] of a substitution.
ApplyStep(st, step) ==
  [s |-> ReplaceAll(st.s, step.var, step.rep),
   locals |-> IF step.kind = "both"
              THEN replace_local_types(st.locals, step.var, step.t) ELSE st.locals,
   log |-> IF step.kind = "descriptor"
           THEN Remember(st.log, Strstr(st.s, step.var), step.t) ELSE st.log]

RECURSIVE ApplySteps(_, _)
\* The steps of a block in their order.  On an empty code without locals no
\* step replaces anything.
ApplySteps(st, steps) ==
  IF steps = <<>> \/ (st.s = "" /\ st.locals = <<>>) THEN st
  ELSE ApplySteps(ApplyStep(st, Head(steps)), Tail(steps))

\* if (strstr(sc, word)), on the code as the blocks before have left it.
Entered(st, b) == b.words = {} \/ \E w \in b.words : Strstr(st.s, w)

RECURSIVE ApplyBlocks(_, _)
ApplyBlocks(st, blocks) ==
  IF blocks = <<>> THEN st
  ELSE IF Entered(st, Head(blocks))
       THEN ApplyBlocks(ApplySteps(st, Head(blocks).steps), Tail(blocks))
       ELSE ApplyBlocks(st, Tail(blocks))

\* typemap_replace_vars: [s, locals, log] after the call; the locals are
\* replaced in place when the type of one of them has a $.
typemap_replace_vars(s, locals, type, pname, lname, index) ==
  LET rep == \E k \in 1 .. Len(locals) : Strstr(locals[k].type, "$")
      out == ApplyBlocks([s |-> s, locals |-> IF rep THEN locals ELSE <<>>, log |-> <<>>],
                         Blocks(type, IF pname.found THEN pname.s ELSE lname, lname, index))
  IN [s |-> out.s, locals |-> IF rep THEN out.locals ELSE locals, log |-> out.log]

-----------------------------------------------------------------------------
(* Swig_typemap_attach_parms *)

\* Wrapper_new_localv: the name the wrapper gives the local, which is the
\* proposed name when the wrapper holds no local of that name.
Wrapper_new_localv(name, decl) == name

RECURSIVE typemap_locals(_, _, _)
\* typemap_locals: [s, decls], the code with the locals renamed and the
\* declarations handed to the wrapper.
typemap_locals(s, l, argnum) ==
  IF l = <<>> THEN [s |-> s, decls |-> <<>>]
  ELSE
    LET p == Head(l) IN
    IF ~NameGiven(p) THEN typemap_locals(s, Tail(l), argnum)
    ELSE
      LET str == IF argnum >= 0 THEN p.name \o IntStr(argnum) ELSE p.name
          decl == SwigType_str_noname(p.type) \o " " \o str
          new_name == Wrapper_new_localv(str, decl)
          r == typemap_locals(ReplaceIdFrom(s, p.name, new_name, 1), Tail(l), argnum)
      IN [s |-> r.s, decls |-> <<decl>> \o r.decls]

\* The type and the name of a parameter, as the search reads them.
ParmKey(p) ==
  IF HasName(p) THEN [type |-> p.type, name |-> p.name] ELSE [type |-> p.type]

RECURSIVE ReplaceGroup(_, _, _, _, _)
\* The loop of typemap_replace_vars over the nmatch parameters of a group that
\* starts at position first; st is what the last call left.
ReplaceGroup(st, parms, first, i, nmatch) ==
  IF i >= nmatch THEN st
  ELSE LET r == typemap_replace_vars(st.s, st.locals, parms[first + i].type,
                                     IF HasName(parms[first + i])
                                     THEN Str(parms[first + i].name) ELSE Null,
                                     parms[first + i].lname, i + 1)
       IN ReplaceGroup([s |-> r.s, locals |-> r.locals, log |-> st.log \o r.log],
                       parms, first, i + 1, nmatch)

RECURSIVE AttachKwargs(_, _, _)
AttachKwargs(attrs, op, kw) ==
  IF kw = <<>> THEN attrs
  ELSE AttachKwargs(Setattr(attrs, tmop_name(op \o ":" \o Head(kw).name), Head(kw).value),
                    op, Tail(kw))

\* The attributes of the first parameter of a group: the code, the position
\* of the next parameter (none after the last), the kwargs.
AttachGroup(attrs, op, s, next, last_pos, kwargs) ==
  LET a1 == Setattr(attrs, tmop_name(op), s)
      a2 == IF next <= last_pos THEN Setattr(a1, tmop_name(op \o ":next"), IntStr(next))
            ELSE Delattr(a1, tmop_name(op \o ":next"))
  IN AttachKwargs(a2, op, kwargs)

\* A list attribute of an entry (NULL is the empty list).
ListOf(e, k) == IF Has(e, k) THEN e[k] ELSE <<>>

\* The object a call works on without Copy: the object of the entry tm itself.
DohCopy_Alias(tm, v) == [of |-> tm, v |-> v]

\* s = Copy(s): the object a call works on is a new one, of no entry; v is
\* its value.
DohCopy(tm, v) == [of |-> NoRef, v |-> v]

\* if (locals) locals = CopyParmList(locals)
CopyParmList(tm, l) == [of |-> NoRef, v |-> l]

\* The store once the calls that replace in place have left the value v in
\* the object obj, which is the attribute attr of the entry obj.of or an
\* object of no entry.
Mutated(tms, obj, attr, v) ==
  IF obj.of = NoRef THEN tms
  ELSE IF ~Has(Deref(tms, obj.of), attr) THEN tms
  ELSE [tms EXCEPT ![obj.of.scope] =
          PutNode(tms[obj.of.scope], obj.of.path,
                  Setattr(NodeAt(tms[obj.of.scope], obj.of.path), obj.of.key,
                          Setattr(Deref(tms, obj.of), attr, v)))]

\* if (locals && f) typemap_locals(s, locals, f, argnum), on the code and the
\* locals g that the substitution left.
LocalsIn(g, f, argnum) ==
  IF g.locals # <<>> /\ f
  THEN [s |-> typemap_locals(g.s, g.locals, argnum).s,
        decls |-> typemap_locals(g.s, g.locals, argnum).decls, locals |-> g.locals]
  ELSE [s |-> g.s, decls |-> <<>>, locals |-> g.locals]

\* The end of a turn: l is the code, the locals and the declarations that
\* typemap_locals left, s and locals are the objects the turn has worked on.
AttachCode(acc, op, parms, pos, argnum, nmatch, kwargs, l, s, locals) ==
  [attrs |-> [acc.attrs EXCEPT ![pos] =
                AttachGroup(acc.attrs[pos], op, ReplaceAll(l.s, "$argnum", IntStr(argnum)),
                            pos + nmatch, Len(parms), kwargs)],
   decls |-> acc.decls \o l.decls,
   tms |-> Mutated(Mutated(acc.tms, s, "code", ReplaceAll(l.s, "$argnum", IntStr(argnum))),
                   locals, "locals", l.locals)]

\* The turn of the loop for the rule e found for the nmatch parameters from
\* position pos on: the attributes and the declarations after it.
AttachTurn(acc, op, parms, f, pos, argnum, e, nmatch, s, locals) ==
  AttachCode(acc, op, parms, pos, argnum, nmatch, ListOf(e, "kwargs"),
             LocalsIn(ReplaceGroup([s |-> s.v, locals |-> locals.v, log |-> <<>>],
                                   parms, pos, 0, nmatch),
                      f, argnum),
             s, locals)

\* The rule found by r: its turn is made and p is past its parameters.
AttachFound(tms, op, parms, f, pos, argnum, acc, r) ==
  [pos |-> pos + r.nmatch,
   acc |-> AttachTurn(acc, op, parms, f, pos, argnum, Deref(tms, r.tm), r.nmatch,
                      DohCopy(r.tm, Deref(tms, r.tm)["code"]),
                      CopyParmList(r.tm, ListOf(Deref(tms, r.tm), "locals")))]

\* if (!tm) or if (!s): p moves to the next parameter.
AttachResult(tms, op, parms, f, pos, argnum, acc, r) ==
  IF r.tm = NoRef \/ ~HasCode(tms, r.tm) THEN [pos |-> pos + 1, acc |-> acc]
  ELSE AttachFound(tms, op, parms, f, pos, argnum, acc, r)

\* One turn of the loop with p at position pos: [pos, acc] after it.
AttachStep(tms, top, op, parms, f, pos, argnum, acc) ==
  AttachResult(tms, op, parms, f, pos, argnum, acc,
               Swig_typemap_search_multi(
                 tms, top, op,
                 [k \in 1 .. Len(parms) - pos + 1 |-> ParmKey(parms[pos + k - 1])], 0))

RECURSIVE AttachFrom(_, _, _, _, _, _, _)
\* The loop of Swig_typemap_attach_parms after argnum turns: n is [pos, acc],
\* the position of p and the attributes, the declarations and the store so far.
AttachFrom(tms, top, op, parms, f, argnum, n) ==
  IF n.pos > Len(parms) THEN n.acc
  ELSE AttachFrom(tms, top, op, parms, f, argnum + 1,
                  AttachStep(n.acc.tms, top, op, parms, f, n.pos, argnum + 1, n.acc))

\* Swig_typemap_attach_parms on parameters that hold no attribute yet; f tells
\* whether a wrapper is given.  [attrs, decls, tms]: the attributes of the
\* parameters, the declarations made in the wrapper, the store after the call.
Swig_typemap_attach_parms(tms, top, op, parms, f) ==
  AttachFrom(tms, top, op, parms, f, 0,
             [pos |-> 1,
              acc |-> [attrs |-> [k \in 1 .. Len(parms) |-> EmptyHash], decls |-> <<>>,
                       tms |-> tms]])

-----------------------------------------------------------------------------
(* Swig_typemap_lookup *)

\* The character replacements at the end of a lookup, on the code s of the
\* entry e: $source, $target, $typemap when the entry has one, $parmname.
LookupReplace(s, e, q, source, target) ==
  ReplaceAll(
    IF Has(e, "typemap")
    THEN ReplaceAll(ReplaceAll(ReplaceAll(s, "$source", source), "$target", target),
                    "$typemap", e["typemap"])
    ELSE ReplaceAll(ReplaceAll(s, "$source", source), "$target", target),
    "$parmname", NameStr(q))

\* The end of a lookup: l is the code, the locals and the declarations that
\* typemap_locals left, s and locals are the objects the call has worked on.
LookupCode(tms, tm, q, source, target, l, s, locals) ==
  [found |-> TRUE,
   s |-> LookupReplace(l.s, Deref(tms, tm), q, source, target),
   decls |-> l.decls,
   tms |-> Mutated(Mutated(tms, s, "code",
                           LookupReplace(l.s, Deref(tms, tm), q, source, target)),
                   locals, "locals", l.locals)]

\* The substitution at index 1 and the locals, on the objects s and locals.
LookupTurn(tms, tm, q, lname, source, target, f, s, locals) ==
  LookupCode(tms, tm, q, source, target,
             LocalsIn(typemap_replace_vars(s.v, locals.v, q.type,
                                           IF HasName(q) THEN Str(q.name) ELSE Null,
                                           lname, 1),
                      f, -1),
             s, locals)

\* if (!tm) return 0; if (!s) return 0; then the copies are made.
LookupFound(tms, tm, q, lname, source, target, f) ==
  IF tm = NoRef THEN [found |-> FALSE, tms |-> tms]
  ELSE IF ~Has(Deref(tms, tm), "code") THEN [found |-> FALSE, tms |-> tms]
  ELSE LookupTurn(tms, tm, q, lname, source, target, f,
                  DohCopy(tm, Deref(tms, tm)["code"]),
                  CopyParmList(tm, ListOf(Deref(tms, tm), "locals")))

\* Swig_typemap_lookup: [found, s, decls, tms], found telling a string from
\* NULL, decls the declarations made in the wrapper (f tells whether one is
\* given), tms the store after the call.
Swig_typemap_lookup(tms, top, op, q, lname, source, target, f) ==
  LookupFound(tms, Swig_typemap_search(tms, top, op, q), q, lname, source, target, f)

-----------------------------------------------------------------------------
(* State machine *)

Init ==
  /\ typemaps = [i \in 0 .. MAX_SCOPE - 1 |-> EmptyHash]
  /\ tm_scope = 0
  /\ last = [call |-> "init"]
  /\ nops = 0

IsQuery(l) ==
  l.call \in {"search", "search_multi", "except_lookup", "attach", "lookup"}

\* A query changes nothing of the store, so a run is explored up to its first
\* query: every pair of a reachable store and a query is still reached.  A run
\* that has stopped in a call makes no further call.
Running == ~IsQuery(last) /\ last.call # "stopped"

\* A call that adds to the store counts against the exploration budget.
Step == /\ Running
        /\ nops < MaxOps
        /\ nops' = nops + 1

RECURSIVE LastOp(_, _)
\* The operator name register has built when it reaches the last parameter.
LastOp(op, parms) ==
  IF Len(parms) <= 1 THEN op ELSE LastOp(NewOp(op, Head(parms)), Tail(parms))

\* Whether the key of (op, parms) holds an entry with code in the top scope:
\* recorded with a registration, which then replaces that entry.
HeldBefore(tms, top, op, parms) ==
  LET path == RegPath(parms[Len(parms)])
      key == tmop_name(LastOp(op, parms))
  IN /\ HasNode(tms[top], path)
     /\ Has(NodeAt(tms[top], path), key)
     /\ Has(NodeAt(tms[top], path)[key], "code")

NewScope ==
  /\ Step
  /\ tm_scope < MaxDepth
  /\ typemaps' = Swig_typemap_new_scope(typemaps, tm_scope).tms
  /\ tm_scope' = Swig_typemap_new_scope(typemaps, tm_scope).top
  /\ last' = [call |-> "new_scope"]

PopScope ==
  /\ Running
  /\ tm_scope' = Swig_typemap_pop_scope(typemaps, tm_scope).top
  /\ last' = [call |-> "pop_scope",
              ret |-> Swig_typemap_pop_scope(typemaps, tm_scope).ret,
              scope |-> Swig_typemap_pop_scope(typemaps, tm_scope).scope]
  /\ UNCHANGED <<typemaps, nops>>

Register ==
  \E op \in Ops, parms \in ParmLists, rule \in Rules :
    /\ Step
    /\ typemaps' = Swig_typemap_register_multi(typemaps, tm_scope, op, parms, rule)
    /\ last' = [call |-> "register",
                replaced |-> HeldBefore(typemaps, tm_scope, op, parms)]
    /\ UNCHANGED tm_scope

Copy ==
  \E op \in Ops, pair \in CopyPairs :
    LET r == Swig_typemap_copy_multi(typemaps, tm_scope, op, pair[1], pair[2]) IN
    /\ Step
    /\ typemaps' = r.tms
    /\ last' = [call |-> "copy", ret |-> r.ret]
    /\ UNCHANGED tm_scope

Clear ==
  \E op \in Ops, parms \in ParmLists :
    /\ Step
    /\ typemaps' = Swig_typemap_clear_multi(typemaps, tm_scope, op, parms)
    /\ last' = [call |-> "clear"]
    /\ UNCHANGED tm_scope

Search ==
  \E op \in Ops, q \in SearchParms :
    /\ Running
    /\ last' = [call |-> "search", op |-> op, q |-> q,
                ret |-> Swig_typemap_search(typemaps, tm_scope, op, q)]
    /\ UNCHANGED <<typemaps, tm_scope, nops>>

SearchMulti ==
  \E op \in Ops, parms \in MultiLists :
    LET r == Swig_typemap_search_multi(typemaps, tm_scope, op, parms, 0) IN
    /\ Running
    /\ last' = [call |-> "search_multi", op |-> op, parms |-> parms,
                ret |-> r.tm, nmatch |-> r.nmatch]
    /\ UNCHANGED <<typemaps, tm_scope, nops>>

Next == NewScope \/ PopScope \/ Register \/ Copy \/ Clear \/ Search \/ SearchMulti

Spec == Init /\ [][Next]_vars

-----------------------------------------------------------------------------
(* The %except facility on the scope stack *)

ExceptCodes == {"e1", "e2", ""}

ExceptRegister ==
  \E code \in ExceptCodes :
    /\ Step
    /\ typemaps' = Swig_except_register(typemaps, tm_scope, code)
    /\ last' = [call |-> "except_register"]
    /\ UNCHANGED tm_scope

ExceptClear ==
  /\ Step
  /\ typemaps' = Swig_except_clear(typemaps, tm_scope)
  /\ last' = [call |-> "except_clear"]
  /\ UNCHANGED tm_scope

ExceptLookup ==
  /\ Running
  /\ last' = [call |-> "except_lookup", ret |-> Swig_except_lookup(typemaps, tm_scope)]
  /\ UNCHANGED <<typemaps, tm_scope, nops>>

ExceptNext == NewScope \/ PopScope \/ ExceptRegister \/ ExceptClear \/ ExceptLookup

SpecExcept == Init /\ [][ExceptNext]_vars

-----------------------------------------------------------------------------
(* The scope stack up to its limit: new_scope is not held back by MaxDepth *)

\* After a store beyond the last slot nothing more is modelled.
InBounds == tm_scope < MAX_SCOPE

DeepNewScope ==
  /\ Running
  /\ InBounds
  /\ typemaps' = Swig_typemap_new_scope(typemaps, tm_scope).tms
  /\ tm_scope' = Swig_typemap_new_scope(typemaps, tm_scope).top
  /\ last' = [call |-> "new_scope"]
  /\ UNCHANGED nops

DeepPopScope == InBounds /\ PopScope

DeepRegister ==
  \E rule \in Rules :
    /\ InBounds
    /\ Step
    /\ nops < 1
    /\ typemaps' = Swig_typemap_register_multi(typemaps, tm_scope, "in", <<PInt>>, rule)
    /\ last' = [call |-> "register",
                replaced |-> HeldBefore(typemaps, tm_scope, "in", <<PInt>>)]
    /\ UNCHANGED tm_scope

DeepNext == DeepNewScope \/ DeepPopScope \/ DeepRegister

SpecDeep == Init /\ [][DeepNext]_vars

-----------------------------------------------------------------------------
(* The %apply rules in scopes *)

\* The methods of which both lists hold a rule with code, the destination in
\* the top scope and the source in some scope: recorded with an apply.
HeldByBoth(tms, top, src, dest) ==
  { op \in ApplyOps :
      LET key == tmop_name(LastOp(op, dest))
          skey == tmop_name(LastOp(op, src))
          path == RegPath(dest[Len(dest)])
      IN /\ HasNode(tms[top], path)
         /\ Has(NodeAt(tms[top], path), key)
         /\ Has(NodeAt(tms[top], path)[key], "code")
         /\ \E ts \in 0 .. top :
              LET sm == Swig_typemap_get(tms, top, src[Len(src)], ts) IN
              /\ sm # <<>>
              /\ Has(NodeAt(tms[ts], sm), skey)
              /\ Has(NodeAt(tms[ts], sm)[skey], "code") }

\* The keys of the node of the last parameter that hold an attribute and that
\* clear_apply matches: recorded with a clear_apply.
MatchedKeys(tms, top, parms) ==
  LET path == RegPath(parms[Len(parms)])
      tm == NodeAt(tms[top], path)
  IN IF ~HasNode(tms[top], path) THEN {}
     ELSE { k \in DOMAIN tm :
              /\ ClearMatches(k, Len(parms) - 1, Signature(parms))
              /\ tm[k] # EmptyHash }

ApplyRegister ==
  \E op \in ApplyOps, parms \in ApplyLists, rule \in Rules :
    /\ Step
    /\ typemaps' = Swig_typemap_register_multi(typemaps, tm_scope, op, parms, rule)
    /\ last' = [call |-> "register",
                replaced |-> HeldBefore(typemaps, tm_scope, op, parms)]
    /\ UNCHANGED tm_scope

ApplyClear ==
  \E op \in ApplyOps, parms \in ApplyLists :
    /\ Step
    /\ typemaps' = Swig_typemap_clear_multi(typemaps, tm_scope, op, parms)
    /\ last' = [call |-> "clear"]
    /\ UNCHANGED tm_scope

Apply ==
  \E pair \in ApplyPairs, outcome \in Outcomes :
    LET r == Swig_typemap_apply_multi(typemaps, tm_scope, pair[1], pair[2], outcome) IN
    /\ Step
    /\ typemaps' = r.tms
    /\ last' = IF r.stopped THEN [call |-> "stopped"]
               ELSE [call |-> "apply", dest |-> pair[2],
                     kept |-> HeldByBoth(typemaps, tm_scope, pair[1], pair[2])]
    /\ UNCHANGED tm_scope

ClearApply ==
  \E parms \in ApplyLists :
    /\ Step
    /\ typemaps' = Swig_typemap_clear_apply_multi(typemaps, tm_scope, parms)
    /\ last' = [call |-> "clear_apply", parms |-> parms,
                emptied |-> MatchedKeys(typemaps, tm_scope, parms)]
    /\ UNCHANGED tm_scope

ApplyNext ==
  NewScope \/ PopScope \/ ApplyRegister \/ ApplyClear \/ Apply \/ ClearApply

SpecApply == Init /\ [][ApplyNext]_vars

-----------------------------------------------------------------------------
(* Every call that writes to the store *)

StoreNext == ApplyNext \/ Copy

SpecStore == Init /\ [][StoreNext]_vars

-----------------------------------------------------------------------------
(* Attaching the rules to the parameters of a function *)

\* The rules whose code ends with the argument number.
AttachRules ==
  { [code |-> "$1 = $input; #$argnum", locals |-> <<>>, kwargs |-> <<>>],
    [code |-> "temp = ($1_ltype) $input; #$argnum",
     locals |-> <<Local1>>, kwargs |-> <<Kwarg1>>] }

AttachRegLists == { <<PIntX>>, <<PInt>>, <<PIntX, PInt>> }

AX(n) == [type |-> "int", name |-> "x", lname |-> "arg" \o IntStr(n)]

AI(n) == [type |-> "int", lname |-> "arg" \o IntStr(n)]

\* The parameter lists of the functions the rules are attached to.
AttachLists ==
  { <<AX(1), AI(2), AX(3)>>, <<AX(1), AI(2), AI(3)>>, <<AI(1), AX(2), AI(3)>>,
    <<AX(1), AI(2)>> }

AttachRegister ==
  \E parms \in AttachRegLists, rule \in AttachRules :
    /\ Step
    /\ typemaps' = Swig_typemap_register_multi(typemaps, tm_scope, "in", parms, rule)
    /\ last' = [call |-> "register",
                replaced |-> HeldBefore(typemaps, tm_scope, "in", parms)]
    /\ UNCHANGED tm_scope

\* What a call of attach that returns r leaves: the store, and the attributes
\* and declarations it has made.
Attached(parms, f, r) ==
  /\ typemaps' = r.tms
  /\ last' = [call |-> "attach", parms |-> parms, wrapper |-> f,
              attrs |-> r.attrs, decls |-> r.decls]

Attach ==
  \E parms \in AttachLists, f \in BOOLEAN :
    /\ Running
    /\ Attached(parms, f, Swig_typemap_attach_parms(typemaps, tm_scope, "in", parms, f))
    /\ UNCHANGED <<tm_scope, nops>>

AttachNext == NewScope \/ PopScope \/ AttachRegister \/ Attach

SpecAttach == Init /\ [][AttachNext]_vars

-----------------------------------------------------------------------------
(* Lookups and attachments on the same store *)

LookupRules ==
  { [code |-> "$target = ($1_ltype) $source; /* $typemap */",
     locals |-> <<Local1>>, kwargs |-> <<>>] }

LookupQueries ==
  { [type |-> "int", name |-> "x"], [type |-> "int"],
    [type |-> "q(const).Integer", name |-> "x"] }

LookupRegister ==
  \E rule \in LookupRules :
    /\ Step
    /\ typemaps' = Swig_typemap_register_multi(typemaps, tm_scope, "in", <<PInt>>, rule)
    /\ last' = [call |-> "register",
                replaced |-> HeldBefore(typemaps, tm_scope, "in", <<PInt>>)]
    /\ UNCHANGED tm_scope

\* What a call of lookup that returns r leaves.
Looked(q, f, r) ==
  /\ typemaps' = r.tms
  /\ last' = [call |-> "lookup", q |-> q, wrapper |-> f,
              ret |-> IF r.found THEN [found |-> TRUE, s |-> r.s, decls |-> r.decls]
                      ELSE [found |-> FALSE]]

Lookup ==
  \E q \in LookupQueries, f \in BOOLEAN :
    /\ Running
    /\ Looked(q, f, Swig_typemap_lookup(typemaps, tm_scope, "in", q, "arg1",
                                        "obj", "result", f))
    /\ UNCHANGED <<tm_scope, nops>>

LookupNext == AttachNext \/ LookupRegister \/ Lookup

SpecLookup == Init /\ [][LookupNext]_vars

-----------------------------------------------------------------------------
(* The variable substitution on its own *)

Templates ==
  { "$descriptor", "$1_descriptor", "$*descriptor", "$&1_descriptor",
    "$2_descriptor, $mangle", "$1 = ($ltype) $input;", "$1 = 0;",
    "$type $1_name[$dim0];" }

SubstTypes == {"p.Foo", "int", "a(10).int", "q(const).p.int"}

SubstLocals ==
  { <<>>, <<Local1>>, <<[type |-> "$type", name |-> "t"]>>,
    <<[type |-> "$*type", name |-> "v"]>>,
    <<[type |-> "int", name |-> "n"], [type |-> "$basetype", name |-> "b"]>> }

SubstInputs ==
  [call : {"input"}, code : Templates, locals : SubstLocals, type : SubstTypes,
   pname : {Null, Str("x")}, lname : {"arg1"}, index : {1, 2}]

SubstInit ==
  /\ typemaps = [i \in 0 .. MAX_SCOPE - 1 |-> EmptyHash]
  /\ tm_scope = 0
  /\ nops = 0
  /\ last \in SubstInputs

Substitute ==
  LET r == typemap_replace_vars(last.code, last.locals, last.type, last.pname,
                                last.lname, last.index)
  IN /\ last.call = "input"
     /\ last' = [call |-> "substitute", code |-> last.code, locals |-> last.locals,
                 type |-> last.type, pname |-> last.pname, lname |-> last.lname,
                 index |-> last.index, s |-> r.s, rlocals |-> r.locals, log |-> r.log]
     /\ UNCHANGED <<typemaps, tm_scope, nops>>

SpecSubst == SubstInit /\ [][Substitute]_vars

-----------------------------------------------------------------------------
(* Vocabulary of the properties *)

Code(tms, r) == Deref(tms, r)["code"]

SingleLists == {l \in ParmLists : Len(l) = 1}

\* The scope hash S holds an entry with code for tmop at the node of path.
CodeAt(S, path, tmop) == EntryAt(S, path, tmop) /\ Has(NodeAt(S, path)[tmop], "code")

\* The set of the elements of a sequence.
Range(f) == {f[i] : i \in 1 .. Len(f)}

\* Scope ts yields a result for the query: a candidate with code, or any entry
\* under the default type.
Yields(tms, ts, op, q) ==
  \/ \E path \in Range(Candidates(q)) : CodeAt(tms[ts], path, tmop_name(op))
  \/ \E path \in Range(DefaultPaths(q)) : EntryAt(tms[ts], path, tmop_name(op))

\* Scope ts holds some entry for the query, with or without code.
Holds(tms, ts, op, q) ==
  \E path \in Range(Candidates(q)) \cup Range(DefaultPaths(q)) :
    EntryAt(tms[ts], path, tmop_name(op))

-----------------------------------------------------------------------------
(* C1 *)

\* register(op, P, rule) in the current store, then search(op, P1.type, P1.name)
\* with the same top scope: the entry returned has code rule.code.
RegisterThenSearch(op, P, rule) ==
  LET t1 == Swig_typemap_register_multi(typemaps, tm_scope, op, P, rule)
      r == Swig_typemap_search(t1, tm_scope, op, P[1])
  IN HasCode(t1, r) /\ Code(t1, r) = rule.code

\* C1 as stated: for a parameter list P of any length, register(op, P, c, L, K)
\* followed by search(op, P1.type, P1.name) returns an entry whose code is c.
C1_AnyLength ==
  \A op \in Ops, P \in ParmLists, rule \in Rules : RegisterThenSearch(op, P, rule)

\* C1 amended: for a parameter list P of exactly one parameter,
\* register(op, P, c, L, K) followed by search(op, P1.type, P1.name) with the
\* same top scope returns the entry of the top scope filed for P1, with code c.
C1_SingleParameter ==
  \A op \in Ops, P \in SingleLists, rule \in Rules :
    /\ RegisterThenSearch(op, P, rule)
    /\ Swig_typemap_search(
         Swig_typemap_register_multi(typemaps, tm_scope, op, P, rule),
         tm_scope, op, P[1]) = Ref(tm_scope, RegPath(P[1]), tmop_name(op))

\* A search has run after a registration of (int, x) in the top scope and
\* returned that entry, with code.
C1_Witness ==
  /\ last.call = "search"
  /\ last.q = PIntX
  /\ last.ret = Ref(tm_scope, <<"int", "x">>, tmop_name(last.op))
  /\ HasCode(typemaps, last.ret)

-----------------------------------------------------------------------------
(* C2 *)

\* Rule A registered for (op, P) in the top scope, a scope pushed, rule B
\* registered for the same (op, P): search returns B, of the new scope; after
\* pop_scope, search returns A, of the scope below, as it was registered.
ShadowThenPop(op, P, ruleA, ruleB) ==
  LET t1 == Swig_typemap_register_multi(typemaps, tm_scope, op, P, ruleA)
      s2 == Swig_typemap_new_scope(t1, tm_scope)
      t3 == Swig_typemap_register_multi(s2.tms, s2.top, op, P, ruleB)
      rB == Swig_typemap_search(t3, s2.top, op, P[1])
      s4 == Swig_typemap_pop_scope(t3, s2.top)
      rA == Swig_typemap_search(s4.tms, s4.top, op, P[1])
  IN /\ rB = Ref(tm_scope + 1, RegPath(P[1]), tmop_name(op))
     /\ RuleOf(Deref(t3, rB)) = ruleB
     /\ s4.top = tm_scope
     /\ rA = Ref(tm_scope, RegPath(P[1]), tmop_name(op))
     /\ Deref(s4.tms, rA) = Deref(t1, rA)
     /\ Has(Deref(s4.tms, rA), "code")
     /\ RuleOf(Deref(s4.tms, rA)) = ruleA

\* C2: scope shadowing. With rule A for (op, type, name) in a scope and rule B
\* for the same (op, type, name) in the scope pushed on it, search returns B;
\* after pop_scope it returns A with its code, locals and kwargs unchanged.
C2_Shadowing ==
  \A op \in Ops, P \in SingleLists, ruleA \in Rules, ruleB \in Rules :
    ShadowThenPop(op, P, ruleA, ruleB)

\* A scope has been popped that shadowed a rule of the scope below: the slot
\* above the top still holds rule B for (in, int, x), the top scope holds
\* rule A with another code, and search returns A.
C2_Witness ==
  /\ last.call = "pop_scope"
  /\ last.ret
  /\ CodeAt(typemaps[tm_scope + 1], <<"int", "x">>, "tmap:in")
  /\ CodeAt(typemaps[tm_scope], <<"int", "x">>, "tmap:in")
  /\ typemaps[tm_scope + 1]["int"]["x"]["tmap:in"]["code"]
       # typemaps[tm_scope]["int"]["x"]["tmap:in"]["code"]
  /\ Swig_typemap_search(typemaps, tm_scope, "in", PIntX)
       = Ref(tm_scope, <<"int", "x">>, "tmap:in")

-----------------------------------------------------------------------------
(* C3 *)

NoLiveScopeHolds(op, q) == \A ts \in 0 .. tm_scope : ~Holds(typemaps, ts, op, q)

\* C3: a rule held by no scope of the stack is not found: search returns none
\* whatever the slots above the top still hold of popped scopes, now and after
\* a further new_scope takes the slot above the top.
C3_PoppedUnreachable ==
  \A op \in Ops, q \in QueryParms :
    NoLiveScopeHolds(op, q) =>
      /\ Swig_typemap_search(typemaps, tm_scope, op, q) = NoRef
      /\ LET n == Swig_typemap_new_scope(typemaps, tm_scope)
         IN Swig_typemap_search(n.tms, n.top, op, q) = NoRef

\* A scope holding the only rule for (in, int, x) has been popped: the slot
\* above the top still holds it, and search returns none.
C3_Witness ==
  /\ last.call = "pop_scope"
  /\ last.ret
  /\ CodeAt(typemaps[tm_scope + 1], <<"int", "x">>, "tmap:in")
  /\ NoLiveScopeHolds("in", PIntX)
  /\ Swig_typemap_search(typemaps, tm_scope, "in", PIntX) = NoRef

-----------------------------------------------------------------------------
(* C4 *)

NamedQueries == {q \in QueryParms : NameGiven(q)}

\* The entry search returns is the one filed under (q.type, q.name) in scope s.
ReturnsTypeName(op, q, s) ==
  Swig_typemap_search(typemaps, tm_scope, op, q)
    = Ref(s, <<q.type, q.name>>, tmop_name(op))

\* C4 as stated: whenever a rule for (T, name) and a rule for (T, no name)
\* both exist for op with code anywhere in the scope stack, in the same scope
\* or in different scopes, search(op, T, name) returns the (T, name) rule.
C4_AnyScopes ==
  \A op \in Ops, q \in NamedQueries :
    (/\ \E s \in 0 .. tm_scope :
          CodeAt(typemaps[s], <<q.type, q.name>>, tmop_name(op))
     /\ \E s \in 0 .. tm_scope : CodeAt(typemaps[s], <<q.type>>, tmop_name(op)))
    => \E s \in 0 .. tm_scope : ReturnsTypeName(op, q, s)

\* C4 amended: when a scope s holds a rule for (T, name) with code and no scope
\* above s holds a match for the query (a candidate with code or an entry under
\* the default type), search(op, T, name) returns the (T, name) rule of s,
\* whatever rule for (T, no name) exists in s or below.
C4_TypeNameFirst ==
  \A op \in Ops, q \in NamedQueries, s \in 0 .. tm_scope :
    (/\ CodeAt(typemaps[s], <<q.type, q.name>>, tmop_name(op))
     /\ \A u \in (s + 1) .. tm_scope : ~Yields(typemaps, u, op, q))
    => ReturnsTypeName(op, q, s)

\* A search for (int, x) has returned the (int, x) rule of the top scope, which
\* also holds a rule for (int) with code.
C4_Witness ==
  /\ last.call = "search"
  /\ last.q = PIntX
  /\ CodeAt(typemaps[tm_scope], <<"int", "x">>, "tmap:in")
  /\ CodeAt(typemaps[tm_scope], <<"int">>, "tmap:in")
  /\ last.ret = Ref(tm_scope, <<"int", "x">>, "tmap:in")

-----------------------------------------------------------------------------
(* C5 *)

\* Some scope of the stack holds an entry with code matching the query under
\* some candidate or under the default type.
CodeMatchExists(op, q) ==
  \E ts \in 0 .. tm_scope :
    \E path \in Range(Candidates(q)) \cup Range(DefaultPaths(q)) :
      CodeAt(typemaps[ts], path, tmop_name(op))

\* C5: search returns an entry without code only if no scope of the stack
\* holds an entry with code matching the query under any candidate; an entry
\* without code under the default type in an upper scope does not hide a
\* match with code in a lower scope.
C5_FallbackOnlyWithoutCode ==
  \A op \in Ops, q \in QueryParms :
    LET r == Swig_typemap_search(typemaps, tm_scope, op, q)
    IN (r # NoRef /\ ~HasCode(typemaps, r)) => ~CodeMatchExists(op, q)

-----------------------------------------------------------------------------
(* C6 *)

\* The nodes of a scope hash: the type nodes and their name nodes.
NodesOf(S) ==
  {<<t>> : t \in DOMAIN S}
    \cup UNION {{<<t, n>> : n \in {k \in DOMAIN S[t] : ~StartsWith(k, "tmap:")}} :
                t \in DOMAIN S}

\* Every entry the stack holds for op, as references.
EntriesFor(op) ==
  UNION {{Ref(ts, path, tmop_name(op)) :
            path \in {n \in NodesOf(typemaps[ts]) :
                        Has(NodeAt(typemaps[ts], n), tmop_name(op))}} :
         ts \in 0 .. tm_scope}

\* The only entry of the stack for op is a rule with code on int[ANY], no name.
OnlyIntAny(op, s) ==
  /\ EntriesFor(op) = {Ref(s, <<"a(ANY).int">>, tmop_name(op))}
  /\ CodeAt(typemaps[s], <<"a(ANY).int">>, tmop_name(op))

-----------------------------------------------------------------------------
(* C7 *)

RECURSIVE KeyTail(_, _)
\* -T1+n1:-...-Tk+nk: for the parameters of l.
KeyTail(l, i) ==
  IF i > Len(l) THEN ""
  ELSE "-" \o l[i].type \o "+" \o NameStr(l[i]) \o ":" \o KeyTail(l, i + 1)

\* tmap:op-T1+n1:-...-T(m-1)+n(m-1): , the key of the rule of the list P.
RuleKey(op, P) == "tmap:" \o op \o KeyTail(SubSeq(P, 1, Len(P) - 1), 1)

\* The entry of the rule of (op, P) in scope ts.
RuleRef(ts, op, P) == Ref(ts, RegPath(P[Len(P)]), RuleKey(op, P))

IsPrefix(P, l) == Len(P) <= Len(l) /\ SubSeq(l, 1, Len(P)) = P

LongLists == {l \in ParmLists : Len(l) >= 2}

\* register(op, P, rule) files the entry with code under the node of the last
\* parameter, with the key of the parameters before it.
FiledUnderLast(t1, op, P, rule) ==
  /\ CodeAt(t1[tm_scope], RegPath(P[Len(P)]), RuleKey(op, P))
  /\ RuleOf(Deref(t1, RuleRef(tm_scope, op, P))) = rule

\* nmatch is the number of parameters of the rule search_multi returns.
NmatchCounts(tms, r) ==
  IF r.tm = NoRef THEN r.nmatch = 0
  ELSE HasCode(tms, r.tm) /\ r.nmatch = count_args(r.tm.key) + 1

\* C7 as stated: register(op, [P1..Pm]), m >= 2, files the entry with code
\* under the node of Pm with key tmap:op-T1+n1:-...-T(m-1)+n(m-1): , and
\* search_multi(op, parms) on any list starting with P1..Pm returns that rule
\* with nmatch = m; nmatch is the number of parameters of the rule returned.
C7_AnyListStartingWith ==
  \A op \in Ops, P \in LongLists, rule \in Rules :
    LET t1 == Swig_typemap_register_multi(typemaps, tm_scope, op, P, rule) IN
    /\ FiledUnderLast(t1, op, P, rule)
    /\ \A l \in {l \in ParmLists : IsPrefix(P, l)} :
         LET r == Swig_typemap_search_multi(t1, tm_scope, op, l, 0) IN
         /\ r = [tm |-> RuleRef(tm_scope, op, P), nmatch |-> Len(P)]
         /\ NmatchCounts(t1, r)

\* C7 amended: register(op, [P1..Pm]), m >= 2, files the entry with code under
\* the node of Pm with key tmap:op-T1+n1:-...-T(m-1)+n(m-1): ; search_multi on
\* the list P1..Pm returns that rule with nmatch = m, and on a longer list
\* starting with P1..Pm it returns that rule with nmatch = m unless a rule of
\* more parameters matches, which it then returns with nmatch > m.  In every
\* store nmatch, initialised to 0, is the number of parameters of the rule
\* returned, and 0 when none is.
C7_LongestMatch ==
  /\ \A op \in Ops, P \in LongLists, rule \in Rules :
       LET t1 == Swig_typemap_register_multi(typemaps, tm_scope, op, P, rule) IN
       /\ FiledUnderLast(t1, op, P, rule)
       /\ Swig_typemap_search_multi(t1, tm_scope, op, P, 0)
            = [tm |-> RuleRef(tm_scope, op, P), nmatch |-> Len(P)]
       /\ \A l \in {l \in ParmLists : IsPrefix(P, l)} :
            LET r == Swig_typemap_search_multi(t1, tm_scope, op, l, 0) IN
            /\ \/ r = [tm |-> RuleRef(tm_scope, op, P), nmatch |-> Len(P)]
               \/ r.tm # NoRef /\ r.nmatch > Len(P)
            /\ NmatchCounts(t1, r)
  /\ \A op \in Ops, l \in ParmLists :
       NmatchCounts(typemaps, Swig_typemap_search_multi(typemaps, tm_scope, op, l, 0))

\* search_multi on (int x, int) has returned the rule of two parameters filed
\* under the node of int with key tmap:in-int+x: , with nmatch = 2.
C7_Witness ==
  /\ last.call = "search_multi"
  /\ last.parms = <<PIntX, PInt>>
  /\ last.ret = Ref(tm_scope, <<"int">>, "tmap:in-int+x:")
  /\ HasCode(typemaps, last.ret)
  /\ last.nmatch = 2

-----------------------------------------------------------------------------
(* C8 *)

\* Pairs of lists of equal length: those the Copy action runs, and two more of
\* two and three parameters.
EqualPairs ==
  {pr \in CopyPairs : Len(pr[1]) = Len(pr[2])}
    \cup { << <<PDef, PInt>>, <<PIntX, PInt>> >>,
           << <<PIntX, PInt, PIntX>>, <<PIntX, PInt, PIntX>> >> }

\* register(op, src, rule) at the top, new_scope when push, copy(op, src, dst).
\* [ret, tms, top, below]: below is the store before the copy.
RegisterThenCopy(op, src, dst, rule, push) ==
  LET t1 == Swig_typemap_register_multi(typemaps, tm_scope, op, src, rule)
      s2 == IF push THEN Swig_typemap_new_scope(t1, tm_scope)
            ELSE [tms |-> t1, top |-> tm_scope]
      c == Swig_typemap_copy_multi(s2.tms, s2.top, op, src, dst)
  IN [ret |-> c.ret, tms |-> c.tms, top |-> s2.top, below |-> s2.tms]

\* C8 as stated: for lists src and dst of equal length, after
\* register(op, src, c) and copy(op, src, dst), copy reports success and
\* search(op, dst1.type, dst1.name) returns an entry whose code is c, also when
\* a scope was pushed between the two.
C8_SearchFirstParameter ==
  \A op \in Ops, pr \in EqualPairs, rule \in Rules, push \in BOOLEAN :
    LET c == RegisterThenCopy(op, pr[1], pr[2], rule, push)
        r == Swig_typemap_search(c.tms, c.top, op, pr[2][1])
    IN c.ret = 0 /\ HasCode(c.tms, r) /\ Code(c.tms, r) = rule.code

\* C8 amended: for lists src and dst of equal length, after
\* register(op, src, c, L, K) and copy(op, src, dst), copy reports success and
\* search_multi(op, dst) returns the rule of dst, an entry of the top scope
\* with code c, locals L and kwargs K and nmatch = |dst|; for lists of one
\* parameter this is the entry search(op, dst1.type, dst1.name) returns.  When
\* a scope was pushed between the two the rule of dst is created in the new
\* top scope and the scopes below are unchanged.
C8_CopyRoundTrip ==
  \A op \in Ops, pr \in EqualPairs, rule \in Rules, push \in BOOLEAN :
    LET c == RegisterThenCopy(op, pr[1], pr[2], rule, push)
        dst == pr[2]
    IN /\ c.ret = 0
       /\ Swig_typemap_search_multi(c.tms, c.top, op, dst, 0)
            = [tm |-> RuleRef(c.top, op, dst), nmatch |-> Len(dst)]
       /\ CodeAt(c.tms[c.top], RegPath(dst[Len(dst)]), RuleKey(op, dst))
       /\ RuleOf(Deref(c.tms, RuleRef(c.top, op, dst))) = rule
       /\ Len(dst) = 1 =>
            Swig_typemap_search(c.tms, c.top, op, dst[1]) = RuleRef(c.top, op, dst)
       /\ \A ts \in 0 .. c.top - 1 : c.tms[ts] = c.below[ts]

\* A copy has succeeded in a scope above the one that holds the source rule:
\* the top scope holds a rule with code for (in, int x) or (in, int), the
\* scope below holds the same code, and the top scope was empty but for it.
C8_Witness ==
  /\ last.call = "copy"
  /\ last.ret = 0
  /\ tm_scope > 0
  /\ \E src \in {<<"int">>, <<"int", "x">>}, dst \in {<<"int">>, <<"int", "x">>} :
       /\ src # dst
       /\ CodeAt(typemaps[tm_scope - 1], src, "tmap:in")
       /\ ~EntryAt(typemaps[tm_scope - 1], dst, "tmap:in")
       /\ CodeAt(typemaps[tm_scope], dst, "tmap:in")
       /\ ~EntryAt(typemaps[tm_scope], src, "tmap:in")
       /\ NodeAt(typemaps[tm_scope], dst)["tmap:in"]["code"]
            = NodeAt(typemaps[tm_scope - 1], src)["tmap:in"]["code"]

-----------------------------------------------------------------------------
(* C9 *)

\* Scope ts holds the terminal entry of (op, src).
TerminalIn(tms, ts, op, src) ==
  src # <<>> /\ EntryAt(tms[ts], RegPath(src[Len(src)]), RuleKey(op, src))

\* C9: copy(op, src, dst) with lists of different lengths returns failure and
\* leaves every scope unchanged; when no scope holds a terminal entry for
\* (op, src) it returns not-found and leaves every scope unchanged.
C9_CopyFailure ==
  \A op \in Ops, src \in ParmLists, dst \in ParmLists :
    LET c == Swig_typemap_copy_multi(typemaps, tm_scope, op, src, dst) IN
    /\ Len(src) # Len(dst) => c.ret = -1 /\ c.tms = typemaps
    /\ (\A ts \in 0 .. tm_scope : ~TerminalIn(typemaps, ts, op, src))
         => c.ret = -1 /\ c.tms = typemaps

\* A copy has failed in a store that holds a rule.
C9_Witness ==
  /\ last.call = "copy"
  /\ last.ret = -1
  /\ \E ts \in 0 .. tm_scope : typemaps[ts] # EmptyHash

-----------------------------------------------------------------------------
(* C10 *)

\* register(op, P, rule) then clear(op, P) in the current store.
RegisterThenClear(op, P, rule) ==
  Swig_typemap_clear_multi(
    Swig_typemap_register_multi(typemaps, tm_scope, op, P, rule), tm_scope, op, P)

\* C10 as stated: in any store state, after register(op, P, c) and
\* clear(op, P) with the same top scope, search(op, P1.type, P1.name) returns
\* none or an entry that has no code.
C10_AnyStore ==
  \A op \in Ops, P \in ParmLists, rule \in Rules :
    LET t2 == RegisterThenClear(op, P, rule)
        r == Swig_typemap_search(t2, tm_scope, op, P[1])
    IN r = NoRef \/ ~HasCode(t2, r)

\* C10 amended: after register(op, P, c) and clear(op, P) with the same top
\* scope the entry of (op, P) in the top scope has no code, locals or kwargs,
\* and search(op, P1.type, P1.name) returns none, an entry that has no code,
\* or an entry with code of another rule, which the store held before the
\* register and which is unchanged.
C10_ClearRoundTrip ==
  \A op \in Ops, P \in ParmLists, rule \in Rules :
    LET t2 == RegisterThenClear(op, P, rule)
        r == Swig_typemap_search(t2, tm_scope, op, P[1])
        e == RuleRef(tm_scope, op, P)
    IN /\ EntryAt(t2[tm_scope], e.path, e.key)
       /\ {"code", "locals", "kwargs"} \cap DOMAIN Deref(t2, e) = {}
       /\ \/ r = NoRef
          \/ ~HasCode(t2, r)
          \/ /\ r # e
             /\ CodeAt(typemaps[r.scope], r.path, r.key)
             /\ Deref(typemaps, r) = Deref(t2, r)

\* A clear has run: the top scope holds an entry for (in, int, x) with a type
\* and no code, and search(in, int, x) returns it.
C10_Witness ==
  /\ last.call = "clear"
  /\ EntryAt(typemaps[tm_scope], <<"int", "x">>, "tmap:in")
  /\ Has(typemaps[tm_scope]["int"]["x"]["tmap:in"], "type")
  /\ ~Has(typemaps[tm_scope]["int"]["x"]["tmap:in"], "code")
  /\ Swig_typemap_search(typemaps, tm_scope, "in", PIntX)
       = Ref(tm_scope, <<"int", "x">>, "tmap:in")

-----------------------------------------------------------------------------
(* C11 *)

\* The entry register(op, P, rule) writes in a scope that held nothing.
FreshEntry(op, P, rule) ==
  Deref(Swig_typemap_register_multi([i \in 0 .. MAX_SCOPE - 1 |-> EmptyHash],
                                    0, op, P, rule),
        RuleRef(0, op, P))

\* C11: re-registration.  register(op, parms, c2, L2, K2) on a key that holds
\* an entry (c1, L1, K1) in the top scope leaves the entry with exactly code
\* c2, locals L2 and kwargs K2, nothing of the old entry surviving, and the
\* same registration twice in a row leaves the store of one registration.
C11_ReRegistration ==
  \A op \in Ops, P \in ParmLists, rule1 \in Rules, rule2 \in Rules :
    LET t1 == Swig_typemap_register_multi(typemaps, tm_scope, op, P, rule1)
        t2 == Swig_typemap_register_multi(t1, tm_scope, op, P, rule2)
        e == RuleRef(tm_scope, op, P)
    IN /\ RuleOf(Deref(t2, e)) = rule2
       /\ Deref(t2, e) = FreshEntry(op, P, rule2)
       /\ rule1 = rule2 => t2 = t1
       /\ EntryAt(typemaps[tm_scope], e.path, e.key) =>
            Deref(t1, e) = FreshEntry(op, P, rule1)

\* A rule for (in, int x) with no locals and no kwargs has been registered in a
\* run in which the same key held a rule with locals and kwargs before.
C11_Witness ==
  /\ last.call = "register"
  /\ last.replaced
  /\ CodeAt(typemaps[tm_scope], <<"int", "x">>, "tmap:in")
  /\ typemaps[tm_scope]["int"]["x"]["tmap:in"]
       = FreshEntry("in", <<PIntX>>, [code |-> "c1", locals |-> <<>>, kwargs |-> <<>>])
  /\ tm_scope = 0
  /\ DOMAIN typemaps[0] = {"int"}
  /\ DOMAIN typemaps[0]["int"] = {"x"}

-----------------------------------------------------------------------------
(* C12 *)

\* C12: the scope stack is never empty and its bottom scope is the one init
\* created: no call takes tm_scope below 0, new_scope and pop_scope leave
\* slot 0 as it is, pop_scope at depth 0 returns NULL and changes nothing,
\* and pop_scope at depth k > 0 returns the top scope and takes the depth to
\* k - 1.
C12_BottomSticky ==
  [][/\ tm_scope' >= 0
     /\ last'.call \in {"new_scope", "pop_scope"} => typemaps'[0] = typemaps[0]
     /\ last'.call = "pop_scope" =>
          /\ typemaps' = typemaps
          /\ IF tm_scope = 0
             THEN ~last'.ret /\ last'.scope = -1 /\ tm_scope' = 0
             ELSE last'.ret /\ last'.scope = tm_scope /\ tm_scope' = tm_scope - 1]_vars

\* pop_scope has returned NULL at depth 0 on a store that holds a rule.
C12_Witness ==
  /\ last.call = "pop_scope"
  /\ ~last.ret
  /\ tm_scope = 0
  /\ typemaps[0] # EmptyHash

-----------------------------------------------------------------------------
(* C13 *)

\* C13: the top scope index stays below the 32 slots of the stack: new_scope
\* does not go beyond the limit.
C13_NoOverflow == tm_scope < MAX_SCOPE

-----------------------------------------------------------------------------
(* C15 *)

RECURSIVE PushTimes(_, _, _)
\* n calls of new_scope.
PushTimes(tms, top, n) ==
  IF n = 0 THEN [tms |-> tms, top |-> top]
  ELSE LET s == Swig_typemap_new_scope(tms, top) IN PushTimes(s.tms, s.top, n - 1)

\* C15: after except_register(code) in a scope and any number of new_scope
\* calls, with no except registered or cleared in the newer scopes,
\* except_lookup returns that code.
C15_ExceptScoping ==
  \A code \in ExceptCodes, n \in 0 .. 2 :
    LET t1 == Swig_except_register(typemaps, tm_scope, code)
        s == PushTimes(t1, tm_scope, n)
    IN Swig_except_lookup(s.tms, s.top) = [found |-> TRUE, s |-> code]

-----------------------------------------------------------------------------
(* C18 *)

\* C18: apply_multi(src, dst) never overwrites: every per-method entry that
\* the node of dst's last parameter holds in the top scope before the call is
\* the same entry (code, locals, kwargs and the rest) after it.
C18_ApplyKeeps ==
  \A pair \in ApplyPairs, outcome \in Outcomes :
    LET dst == pair[2]
        path == RegPath(dst[Len(dst)])
        before == NodeAt(typemaps[tm_scope], path)
        r == Swig_typemap_apply_multi(typemaps, tm_scope, pair[1], dst, outcome)
        after == NodeAt(r.tms[tm_scope], path)
    IN HasNode(typemaps[tm_scope], path) =>
         \A k \in DOMAIN before :
           StartsWith(k, "tmap:") => Has(after, k) /\ after[k] = before[k]

\* An apply has run from a source that holds a rule with code to a
\* destination that held its own for the same method, and the destination's
\* node still holds an entry with code for it.
C18_Witness ==
  /\ last.call = "apply"
  /\ last.kept # {}
  /\ \A op \in last.kept :
       CodeAt(typemaps[tm_scope], RegPath(last.dest[Len(last.dest)]),
              RuleKey(op, last.dest))

-----------------------------------------------------------------------------
(* C19 *)

\* The scopes that hold a rule with code of exactly (op, P).
HeldIn(tms, top, op, P) ==
  { ts \in 0 .. top : CodeAt(tms[ts], RegPath(P[Len(P)]), RuleKey(op, P)) }

\* C19: for lists of equal length, when some scope holds a rule with code of
\* exactly (op, src) and no scope holds one of (op, dst), then after
\* apply_multi(src, dst) the call search_multi(op, dst) returns the rule of
\* (op, dst) in the top scope, with the code, locals and kwargs of the source
\* rule and with nmatch = |dst|; also when dst's type node was missing and
\* when dst held an entry without code.
C19_ApplyCopiesEvery ==
  \A op \in ApplyOps, pair \in ApplyPairs, outcome \in Outcomes :
    LET src == pair[1]
        dst == pair[2]
        held == HeldIn(typemaps, tm_scope, op, src)
        r == Swig_typemap_apply_multi(typemaps, tm_scope, src, dst, outcome)
        res == Swig_typemap_search_multi(r.tms, tm_scope, op, dst, 0)
    IN (held # {} /\ HeldIn(typemaps, tm_scope, op, dst) = {}) =>
         /\ ~r.stopped
         /\ res.tm = RuleRef(tm_scope, op, dst)
         /\ res.nmatch = Len(dst)
         /\ \E ts \in held :
              RuleOf(Deref(r.tms, res.tm)) = RuleOf(Deref(typemaps, RuleRef(ts, op, src)))

-----------------------------------------------------------------------------
(* C20 *)

\* The node of the last parameter of parms after clear_apply, given the keys
\* it is to empty: those entries have lost every attribute and stay under
\* their keys, every other key of the node is as before.
EmptiedTo(tms, top, parms, targets) ==
  LET path == RegPath(parms[Len(parms)])
      tm == NodeAt(tms[top], path)
  IN IF ~HasNode(tms[top], path) THEN tms
     ELSE [tms EXCEPT ![top] =
             PutNode(tms[top], path,
                     [k \in DOMAIN tm |-> IF k \in targets THEN EmptyHash ELSE tm[k]])]

\* C20: clear_apply_multi(parms) empties, in the top scope only and for every
\* method at once, every per-method entry of the node of the last parameter
\* whose key is the key of a rule of parms (its tail is the signature of
\* parms, with one argument counted for every parameter before the last);
\* the emptied entry stays under its key, and other entries, name sub-nodes
\* and lower scopes are unchanged.
C20_ClearApplyEmpties ==
  \A parms \in ApplyLists :
    Swig_typemap_clear_apply_multi(typemaps, tm_scope, parms)
      = EmptiedTo(typemaps, tm_scope, parms, {RuleKey(op, parms) : op \in ApplyOps})

\* C20 as stated: the entries removed are those whose key contains the tail
\* signature and whose count_args equals the arity of parms.
C20_ClearApplyByArity ==
  \A parms \in ApplyLists :
    LET path == RegPath(parms[Len(parms)])
        tm == NodeAt(typemaps[tm_scope], path)
        r == Swig_typemap_clear_apply_multi(typemaps, tm_scope, parms)
    IN /\ \A ts \in 0 .. MAX_SCOPE - 1 : ts # tm_scope => r[ts] = typemaps[ts]
       /\ HasNode(typemaps[tm_scope], path) =>
            \A k \in DOMAIN tm :
              IF /\ StartsWith(k, "tmap:")
                 /\ Strstr(k, Signature(parms))
                 /\ count_args(k) = Len(parms)
              THEN \/ ~Has(NodeAt(r[tm_scope], path), k)
                   \/ NodeAt(r[tm_scope], path)[k] = EmptyHash
              ELSE /\ Has(NodeAt(r[tm_scope], path), k)
                   /\ NodeAt(r[tm_scope], path)[k] = tm[k]

\* A clear_apply has emptied the rules of both methods of a list; the entries
\* are still under their keys, without attributes.
C20_Witness ==
  /\ last.call = "clear_apply"
  /\ last.emptied = {RuleKey(op, last.parms) : op \in ApplyOps}
  /\ \A k \in last.emptied :
       /\ Has(NodeAt(typemaps[tm_scope], RegPath(last.parms[Len(last.parms)])), k)
       /\ NodeAt(typemaps[tm_scope], RegPath(last.parms[Len(last.parms)]))[k] = EmptyHash

-----------------------------------------------------------------------------
(* C14 *)

EndsWith(s, t) == Len(s) >= Len(t) /\ SubSeq(s, Len(s) - Len(t) + 1, Len(s)) = t

\* C14: in the code attach leaves on the first parameter of a group, $argnum
\* has been replaced by the 1-based position of that parameter in parms, also
\* for a group that follows a group of more than one parameter.  (The code of
\* every rule of AttachRules ends with "#$argnum".)
C14_ArgnumIsPosition ==
  last.call = "attach" =>
    \A i \in 1 .. Len(last.parms) :
      Has(last.attrs[i], "tmap:in") =>
        /\ ~Strstr(last.attrs[i]["tmap:in"], "$argnum")
        /\ EndsWith(last.attrs[i]["tmap:in"], "#" \o IntStr(i))

-----------------------------------------------------------------------------
(* C16 *)

\* The descriptor variables of a substitution at an index, each with the type
\* it stands for.
DescriptorVars(type, index) ==
  LET forms == {<<"", type>>, <<"&", SwigType_add_pointer(type)>>}
                 \cup (IF SwigType_ispointer(type)
                       THEN {<<"*", SwigType_del_pointer(type)>>} ELSE {})
  IN {<<Var(f[1], index, "descriptor"), f[2]>> : f \in forms}
       \cup (IF index = 1
             THEN {<<"$" \o f[1] \o "descriptor", f[2]>> : f \in forms} ELSE {})

RECURSIVE Occurrences(_, _, _)
\* The number of occurrences of pat in s from position i on.
Occurrences(s, pat, i) ==
  LET j == Find(s, pat, i) IN
  IF j = 0 THEN 0 ELSE 1 + Occurrences(s, pat, j + Len(pat))

\* C16: a substitution hands a type t to remember only if the code held a
\* descriptor variable of t, which has then been replaced by the descriptor
\* of t; and when the code holds $descriptor once and no other descriptor
\* variable and the index is 1, remember is called exactly once, with the
\* type of the parameter.
C16_DescriptorRemembered ==
  last.call = "substitute" =>
    /\ \A k \in 1 .. Len(last.log) :
         \E v \in DescriptorVars(last.type, last.index) :
           /\ v[2] = last.log[k]
           /\ Strstr(last.code, v[1])
           /\ ~Strstr(last.s, v[1])
           /\ Strstr(last.s, "SWIGTYPE" \o SwigType_manglestr(v[2]))
    /\ ( /\ last.index = 1
         /\ Strstr(last.code, "$descriptor")
         /\ Occurrences(last.code, "descriptor", 1) = 1 )
       => last.log = <<last.type>>

\* The template $descriptor has been substituted at index 1 on the type Foo*:
\* the code holds the descriptor and remember was called once, with Foo*.
C16_Witness ==
  /\ last.call = "substitute"
  /\ last.code = "$descriptor"
  /\ last.index = 1
  /\ last.type = "p.Foo"
  /\ last.s = "SWIGTYPE_p_Foo"
  /\ last.log = <<"p.Foo">>

-----------------------------------------------------------------------------
(* C17 *)

\* The variables that stand for a type in a substitution at an index.
TypeVars(type, index) ==
  LET prefixes == {"", "&"} \cup (IF SwigType_ispointer(type) THEN {"*"} ELSE {})
      kinds == {<<f, k>> : f \in prefixes, k \in {"type", "ltype"}}
                 \cup {<<"", "basetype">>}
  IN {Var(v[1], index, v[2]) : v \in kinds}
       \cup (IF index = 1 THEN {"$" \o v[1] \o v[2] : v \in kinds} ELSE {})

\* C17: after a substitution, the type of a local that held a $ holds none
\* of the type variables of the substitution, whatever the code holds.
C17_LocalsExpanded ==
  last.call = "substitute" =>
    \A k \in 1 .. Len(last.locals) :
      Strstr(last.locals[k].type, "$") =>
        \A v \in TypeVars(last.type, last.index) : ~Strstr(last.rlocals[k].type, v)

-----------------------------------------------------------------------------
(* C21 *)

\* The entry e of a scope without its code, locals and kwargs.
Stripped(e) == [k \in (DOMAIN e) \ {"code", "locals", "kwargs"} |-> e[k]]

\* C21: clear(op, parms) in any store changes the top scope alone: every
\* other scope is as before; when the top scope holds the entry of (op, parms)
\* the entry loses its code, locals and kwargs and nothing else of the scope
\* changes; when it holds none the store is as before.
C21_ClearTopOnly ==
  \A op \in Ops, P \in ParmLists :
    LET t2 == Swig_typemap_clear_multi(typemaps, tm_scope, op, P)
        e == RuleRef(tm_scope, op, P)
    IN /\ \A ts \in DOMAIN typemaps : ts # tm_scope => t2[ts] = typemaps[ts]
       /\ IF EntryAt(typemaps[tm_scope], e.path, e.key)
          THEN /\ EntryAt(t2[tm_scope], e.path, e.key)
               /\ Deref(t2, e) = Stripped(Deref(typemaps, e))
               /\ PutNode(t2[tm_scope], e.path,
                          Setattr(NodeAt(t2[tm_scope], e.path), e.key,
                                  Deref(typemaps, e))) = typemaps[tm_scope]
          ELSE t2 = typemaps

\* The top scope and the scope below it both hold a rule with code for
\* (in, int x): clear(in, (int x)) takes the code of the top one and leaves
\* the lower one as it is.
C21_Witness ==
  LET t2 == Swig_typemap_clear_multi(typemaps, tm_scope, "in", <<PIntX>>) IN
  /\ tm_scope = 1
  /\ last.call = "register"
  /\ CodeAt(typemaps[0], <<"int", "x">>, "tmap:in")
  /\ CodeAt(typemaps[1], <<"int", "x">>, "tmap:in")
  /\ ~CodeAt(t2[1], <<"int", "x">>, "tmap:in")
  /\ t2[0] = typemaps[0]

-----------------------------------------------------------------------------
(* C22 *)

\* The names of the parameters the registrar is given: the keys of the
\* name nodes.
StoreNames ==
  UNION { {l[i].name : i \in {j \in 1 .. Len(l) : HasName(l[j])}} :
          l \in ParmLists \cup ApplyLists }

\* An entry with code filed at path has the type of the path and, when it
\* has a pname, the name of the path.
FiledRight(e, path) ==
  Has(e, "code") =>
    /\ Has(e, "type") /\ e["type"] = path[1]
    /\ Has(e, "pname") => Len(path) = 2 /\ e["pname"] = path[2]

\* C22: in every store reached by register, copy, clear, apply_multi,
\* clear_apply_multi, new_scope and pop_scope, every key of an entry begins
\* with tmap:, and every entry with code has the type of the node it is filed
\* under and, when it has a pname, the name of its name node.
C22_StoreInvariant ==
  \A ts \in DOMAIN typemaps :
    \A t \in DOMAIN typemaps[ts] :
      \A k \in DOMAIN typemaps[ts][t] :
        IF k \in StoreNames
        THEN \A k2 \in DOMAIN typemaps[ts][t][k] :
               /\ StartsWith(k2, "tmap:")
               /\ FiledRight(typemaps[ts][t][k][k2], <<t, k>>)
        ELSE /\ StartsWith(k, "tmap:")
             /\ FiledRight(typemaps[ts][t][k], <<t>>)

\* An apply from (int) has left a rule with code on (int x), which held none
\* before: the entry is under the name node x of int and has pname x.
C22_Witness ==
  /\ last.call = "apply"
  /\ last.dest = <<PIntX>>
  /\ "in" \notin last.kept
  /\ CodeAt(typemaps[tm_scope], <<"int">>, "tmap:in")
  /\ CodeAt(typemaps[tm_scope], <<"int", "x">>, "tmap:in")
  /\ typemaps[tm_scope]["int"]["x"]["tmap:in"]["pname"] = "x"

-----------------------------------------------------------------------------
(* C23 *)

\* A second lookup with the same arguments, after one that returned r1,
\* returns what the first returned and both leave the store tms.
SameLookup(tms, r1, r2) ==
  /\ r1.tms = tms
  /\ r2.tms = tms
  /\ r2.found = r1.found
  /\ r1.found => r2.s = r1.s /\ r2.decls = r1.decls

\* The second of two lookups with the same arguments.
LookupAgain(top, q, f, r1) ==
  Swig_typemap_lookup(r1.tms, top, "in", q, "arg1", "obj", "result", f)

\* Two lookups in a row compared.
LookupTwice(tms, top, q, f, r1) == SameLookup(tms, r1, LookupAgain(top, q, f, r1))

-----------------------------------------------------------------------------
(* C24 *)

\* C24: when the top scope holds a rule with code on the ANY-dimension
\* variant of a type that the query type becomes by qualifier stripping and
\* typedef resolution, and that type is an array, search returns an entry
\* with code of the top scope.
C24_ArrayOfCurrentType ==
  \A op \in Ops, q \in ArrayQueries \cup TypedefArrayQueries :
    \A T \in Range(TypeChain(q.type, FALSE)) :
      (SwigType_isarray(T)
         /\ CodeAt(typemaps[tm_scope], <<strip_arrays(T)>>, tmop_name(op)))
        => LET r == Swig_typemap_search(typemaps, tm_scope, op, q)
           IN r # NoRef /\ r.scope = tm_scope /\ HasCode(typemaps, r)

-----------------------------------------------------------------------------
(* C25 *)

\* The parameters of parms from position pos on, as search_multi reads them.
Remaining(parms, pos) ==
  [k \in 1 .. Len(parms) - pos + 1 |-> ParmKey(parms[pos + k - 1])]

\* The positions of the parameters that attach has given the code of a rule.
Firsts(attrs) == {i \in 1 .. Len(attrs) : Has(attrs[i], tmop_name("in"))}

\* The position the next link of the group at i points to, one past the list
\* when the group has none.
GroupEnd(attrs, i) ==
  IF Has(attrs[i], tmop_name("in:next"))
  THEN CHOOSE n \in 1 .. Len(attrs) : IntStr(n) = attrs[i][tmop_name("in:next")]
  ELSE Len(attrs) + 1

\* C25: in every reachable store and at every position of every parameter
\* list, search_multi called as attach calls it (nmatch = 0) returns either no
\* rule and nmatch 0, or a rule that has code with 1 <= nmatch <= the number
\* of remaining parameters, and the turn of the attach loop leaves p at a
\* later position, at most one past the list.  After an attach, every group
\* runs from its first parameter to its next link, has the length nmatch that
\* search_multi gives at its first parameter, and holds no first parameter of
\* another group.
C25_AttachPartitions ==
  /\ ~IsQuery(last) =>
       \A parms \in AttachLists, pos \in 1 .. 3 :
         pos <= Len(parms) =>
           LET r == Swig_typemap_search_multi(typemaps, tm_scope, "in",
                                              Remaining(parms, pos), 0)
               n == AttachStep(typemaps, tm_scope, "in", parms, FALSE, pos, pos,
                               [attrs |-> [k \in 1 .. Len(parms) |-> EmptyHash],
                                decls |-> <<>>, tms |-> typemaps])
           IN /\ r.tm = NoRef => r.nmatch = 0 /\ n.pos = pos + 1
              /\ r.tm # NoRef =>
                   /\ HasCode(typemaps, r.tm)
                   /\ r.nmatch >= 1
                   /\ r.nmatch <= Len(parms) - pos + 1
                   /\ n.pos = pos + r.nmatch
  /\ last.call = "attach" =>
       \A i \in Firsts(last.attrs) :
         /\ GroupEnd(last.attrs, i) > i
         /\ GroupEnd(last.attrs, i) - i =
              Swig_typemap_search_multi(typemaps, tm_scope, "in",
                                        Remaining(last.parms, i), 0).nmatch
         /\ \A j \in i + 1 .. GroupEnd(last.attrs, i) - 1 : j \notin Firsts(last.attrs)

\* An attach has made a group of two parameters followed by a group of one.
C25_Witness ==
  /\ last.call = "attach"
  /\ Len(last.parms) = 3
  /\ Firsts(last.attrs) = {1, 3}
  /\ GroupEnd(last.attrs, 1) = 3
  /\ GroupEnd(last.attrs, 3) = 4

-----------------------------------------------------------------------------
(* C26 *)

\* The key of the rule of a parameter list for op, in the node of its last
\* parameter.
ListKey(op, parms) == tmop_name(op \o Signature(parms))

\* The node of the last parameter of a list.
LastPath(parms) == RegPath(parms[Len(parms)])

\* The source of the pair has a rule with code for op in the top scope and in
\* a scope below it, and the destination has no entry for op in any scope.
Shadowed(op, src, dst) ==
  /\ tm_scope > 0
  /\ CodeAt(typemaps[tm_scope], LastPath(src), ListKey(op, src))
  /\ \E ts \in 0 .. tm_scope - 1 : CodeAt(typemaps[ts], LastPath(src), ListKey(op, src))
  /\ \A ts \in 0 .. tm_scope : ~EntryAt(typemaps[ts], LastPath(dst), ListKey(op, dst))

\* C26: when the source of an apply has rules with code for op in the top
\* scope and in a lower one and the destination has no entry for op, the
\* apply goes through and leaves on the destination, in the top scope, a rule
\* with the code of the source rule of the top scope, whether or not the type
\* node of the destination was there.
C26_TopScopeWins ==
  \A op \in ApplyOps, pair \in ApplyPairs, outcome \in Outcomes :
    Shadowed(op, pair[1], pair[2]) =>
      LET r == Swig_typemap_apply_multi(typemaps, tm_scope, pair[1], pair[2], outcome) IN
      /\ ~r.stopped
      /\ CodeAt(r.tms[tm_scope], LastPath(pair[2]), ListKey(op, pair[2]))
      /\ NodeAt(r.tms[tm_scope], LastPath(pair[2]))[ListKey(op, pair[2])]["code"]
           = NodeAt(typemaps[tm_scope], LastPath(pair[1]))[ListKey(op, pair[1])]["code"]

====
